---- MODULE Spec2Model ----
(***************************************************************************)
(* Rule-based pipeline of the meta agent: free text -> analysis brief ->   *)
(* conversation flow + function catalogue -> merged agent configuration.   *)
(* Python strings are TLA+ strings; "kw in text" is substring search.      *)
(***************************************************************************)
EXTENDS Integers, Sequences, FiniteSets, TLC

VARIABLES pc, user_prompt, analysis, agent_config_raw, functions_raw, agent_config,
          detected_tasks, openai_tools, response, llm_client, llm_calls, fell_back,
          requests, live_patterns, call

vars == <<pc, user_prompt, analysis, agent_config_raw, functions_raw, agent_config,
          detected_tasks, openai_tools, response, llm_client, llm_calls, fell_back,
          requests, live_patterns, call>>

(* ------------------------------ bounds -------------------------------- *)

\* Largest number of vocabulary phrases joined into one prompt.
MaxWords == 2

\* Phrases the prompts are built from (joined by single spaces).
Vocabulary ==
    { "Email", "phone number", "appointment", "order status", "complaint",
      "schedule", "name", "hello", "cancel", "mail", "phone", "doctor" }

\* The example prompt of the /api/example endpoint.
ExamplePrompt ==
    "Create a support bot for appointment booking. It should greet, ask for name and date, and confirm availability via an API."

\* The prompt test_fix.py analyses.
TestFixPrompt ==
    "create a support bot for appointment booking take name email and greet that users"

\* AgentCreateRequest.user_prompt: min_length
MinPromptLen == 10

\* Python None
None == "<None>"

\* Python None where a list, a dict or an object may stand.
Nothing == <<>>

\* The elements of a list.
Range(seq) == { seq[i] : i \in 1..Len(seq) }

\* Python: d.get(key, default)
Get(d, key, default) == IF key \in DOMAIN d THEN d[key] ELSE default

\* The i-th value of uuid.uuid4() for kind in a run whose random source is
\* seed.
uuid4(seed, kind, i) == <<seed, kind, i>>

(* --------------------------- string helpers --------------------------- *)

\* Python: kw in text
Contains(kw, text) ==
    \E i \in 1..(Len(text) - Len(kw) + 1) : SubSeq(text, i, i + Len(kw) - 1) = kw

\* Python: any(kw in text for kw in keywords)
AnyIn(keywords, text) ==
    \E k \in 1..Len(keywords) : Contains(keywords[k], text)

UpperChars == <<"A","B","C","D","E","F","G","H","I","J","K","L","M",
                "N","O","P","Q","R","S","T","U","V","W","X","Y","Z">>
LowerChars == <<"a","b","c","d","e","f","g","h","i","j","k","l","m",
                "n","o","p","q","r","s","t","u","v","w","x","y","z">>

LowerChar(c) ==
    IF \E k \in 1..26 : UpperChars[k] = c
    THEN LowerChars[CHOOSE k \in 1..26 : UpperChars[k] = c]
    ELSE c

RECURSIVE LowerRange(_, _, _)
\* Lower-case s[lo..hi] character by character (split in halves).
LowerRange(s, lo, hi) ==
    IF lo > hi THEN ""
    ELSE IF lo = hi THEN LowerChar(SubSeq(s, lo, lo))
    ELSE LET mid == (lo + hi) \div 2
         IN LowerRange(s, lo, mid) \o LowerRange(s, mid + 1, hi)

\* Python: s.lower()
Lower(s) == LowerRange(s, 1, Len(s))

RECURSIVE ReplaceFrom(_, _, _, _)
\* Python: s.replace(old, new), scanning left to right from position i.
ReplaceFrom(s, i, old, new) ==
    IF i > Len(s) THEN ""
    ELSE IF i + Len(old) - 1 <= Len(s) /\ SubSeq(s, i, i + Len(old) - 1) = old
         THEN new \o ReplaceFrom(s, i + Len(old), old, new)
         ELSE SubSeq(s, i, i) \o ReplaceFrom(s, i + 1, old, new)

Replace(s, old, new) == ReplaceFrom(s, 1, old, new)

(* ------------------------- orchestrator tables ------------------------ *)

domain_keywords == <<
    [domain |-> "healthcare", keywords |-> <<"appointment", "doctor", "clinic", "hospital", "patient", "medical", "health", "therapy">>],
    [domain |-> "e-commerce", keywords |-> <<"order", "product", "shipping", "cart", "purchase", "delivery", "shop", "store", "buy">>],
    [domain |-> "finance", keywords |-> <<"account", "balance", "transaction", "payment", "loan", "bank", "card", "credit">>],
    [domain |-> "travel", keywords |-> <<"flight", "hotel", "booking", "reservation", "travel", "trip", "airline">>],
    [domain |-> "telecommunications", keywords |-> <<"plan", "data", "mobile", "phone bill", "sim", "network", "roaming">>],
    [domain |-> "food_delivery", keywords |-> <<"food", "restaurant", "delivery", "menu", "order food", "meal">>],
    [domain |-> "insurance", keywords |-> <<"claim", "policy", "insurance", "coverage", "premium">>],
    [domain |-> "education", keywords |-> <<"course", "class", "enrollment", "student", "tutor", "training">>],
    [domain |-> "real_estate", keywords |-> <<"property", "rent", "lease", "apartment", "house", "real estate">>],
    [domain |-> "automotive", keywords |-> <<"car", "vehicle", "service", "repair", "maintenance", "dealership">> ] >>

slot_keywords == <<
    [slot |-> "customer_name", keywords |-> <<"name", "first name", "last name", "full name", "caller name", "user name">>],
    [slot |-> "email", keywords |-> <<"email", "e-mail", "email address", "mail">>],
    [slot |-> "phone_number", keywords |-> <<"phone", "phone number", "mobile", "contact number", "cell">>],
    [slot |-> "preferred_date", keywords |-> <<"date", "day", "when", "preferred date", "appointment date">>],
    [slot |-> "preferred_time", keywords |-> <<"time", "preferred time", "appointment time", "what time">>],
    [slot |-> "address", keywords |-> <<"address", "location", "where">>],
    [slot |-> "service_type", keywords |-> <<"service", "service type", "type of service">>],
    [slot |-> "reason", keywords |-> <<"reason", "purpose", "why">>],
    [slot |-> "order_number", keywords |-> <<"order number", "order id", "order #">>],
    [slot |-> "account_number", keywords |-> <<"account number", "account id", "account #">>],
    [slot |-> "issue_description", keywords |-> <<"issue", "problem", "complaint", "describe">>],
    [slot |-> "age", keywords |-> <<"age", "how old">>],
    [slot |-> "dob", keywords |-> <<"date of birth", "dob", "birthday">>],
    [slot |-> "insurance_id", keywords |-> <<"insurance", "insurance id", "policy number">>],
    [slot |-> "company_name", keywords |-> <<"company", "organization", "business name">> ] >>

(* ----------------------------- classifier ----------------------------- *)

RECURSIVE DetectDomainFrom_LastMatch(_, _)
\* The domain loop without the early return: a later matching domain wins.
DetectDomainFrom_LastMatch(text, d) ==
    IF d > Len(domain_keywords) THEN "general_support"
    ELSE LET later == DetectDomainFrom_LastMatch(text, d + 1)
         IN IF later # "general_support" THEN later
            ELSE IF AnyIn(domain_keywords[d].keywords, text) THEN domain_keywords[d].domain
            ELSE "general_support"

RECURSIVE DetectDomainFrom(_, _)
\* The loop of _detect_domain from table entry d on.
DetectDomainFrom(text, d) ==
    IF d > Len(domain_keywords) THEN "general_support"
    ELSE IF AnyIn(domain_keywords[d].keywords, text) THEN domain_keywords[d].domain
    ELSE DetectDomainFrom(text, d + 1)

\* _detect_domain with the default the agent creator uses ("general").
_detect_domain_DefaultGeneral(text) ==
    IF \E d \in 1..Len(domain_keywords) : AnyIn(domain_keywords[d].keywords, text)
    THEN DetectDomainFrom(text, 1) ELSE "general"

\* MetaOrchestrator._detect_domain
_detect_domain(text) == DetectDomainFrom(text, 1)

RECURSIVE ExtractSlotsFrom_FirstKeywordOnly(_, _, _)
\* The slot loop with the break one level out: only keywords[0] is tried.
ExtractSlotsFrom_FirstKeywordOnly(text, s, found_slots) ==
    IF s > Len(slot_keywords) THEN found_slots
    ELSE LET slot_name == slot_keywords[s].slot
             hit == Contains(slot_keywords[s].keywords[1], text)
             dup == \E k \in 1..Len(found_slots) : found_slots[k] = slot_name
         IN ExtractSlotsFrom_FirstKeywordOnly(text, s + 1,
                IF hit /\ ~dup THEN Append(found_slots, slot_name) ELSE found_slots)

RECURSIVE ExtractSlotsFrom(_, _, _)
\* The outer loop of _extract_user_slots from table entry s on.
ExtractSlotsFrom(text, s, found_slots) ==
    IF s > Len(slot_keywords) THEN found_slots
    ELSE LET slot_name == slot_keywords[s].slot
             hit == AnyIn(slot_keywords[s].keywords, text)
             dup == \E k \in 1..Len(found_slots) : found_slots[k] = slot_name
         IN ExtractSlotsFrom(text, s + 1,
                IF hit /\ ~dup THEN Append(found_slots, slot_name) ELSE found_slots)

\* MetaOrchestrator._extract_user_slots
_extract_user_slots(text) == ExtractSlotsFrom(text, 1, <<>>)

(* ---------------------------- task detection -------------------------- *)

\* task_patterns of _detect_tasks, in dict order.
task_patterns == <<
    [key |-> "greet", keywords |-> <<"greet", "welcome", "hello", "introduce">>,
     task |-> [task_name |-> "Greeting", data_to_collect |-> <<>>,
               requires_api |-> FALSE, api_description |-> ""]],
    [key |-> "collect_name", keywords |-> <<"take name", "ask name", "collect name", "get name", "ask for name">>,
     task |-> [task_name |-> "Collect Customer Name", data_to_collect |-> <<"customer_name">>,
               requires_api |-> FALSE, api_description |-> ""]],
    [key |-> "collect_email", keywords |-> <<"email", "e-mail", "mail address">>,
     task |-> [task_name |-> "Collect Email", data_to_collect |-> <<"email">>,
               requires_api |-> FALSE, api_description |-> ""]],
    [key |-> "collect_phone", keywords |-> <<"phone number", "mobile number", "contact number">>,
     task |-> [task_name |-> "Collect Phone Number", data_to_collect |-> <<"phone_number">>,
               requires_api |-> FALSE, api_description |-> ""]],
    [key |-> "appointment", keywords |-> <<"appointment", "schedule", "book", "booking", "slot">>,
     task |-> [task_name |-> "Appointment Booking",
               data_to_collect |-> <<"customer_name", "preferred_date", "preferred_time">>,
               requires_api |-> TRUE,
               api_description |-> "Check available appointment slots and book an appointment"]],
    [key |-> "order_status", keywords |-> <<"order status", "track order", "where is my order", "order tracking">>,
     task |-> [task_name |-> "Order Status Check", data_to_collect |-> <<"order_number">>,
               requires_api |-> TRUE, api_description |-> "Look up order status by order number"]],
    [key |-> "account_inquiry", keywords |-> <<"account", "balance", "statement">>,
     task |-> [task_name |-> "Account Inquiry", data_to_collect |-> <<"account_number">>,
               requires_api |-> TRUE, api_description |-> "Retrieve account details and balance"]],
    [key |-> "complaint", keywords |-> <<"complaint", "issue", "problem", "wrong">>,
     task |-> [task_name |-> "File Complaint", data_to_collect |-> <<"customer_name", "issue_description">>,
               requires_api |-> TRUE, api_description |-> "Submit a customer complaint ticket"]],
    [key |-> "cancel", keywords |-> <<"cancel", "cancellation", "refund">>,
     task |-> [task_name |-> "Cancellation Processing",
               data_to_collect |-> <<"order_number", "cancellation_reason">>,
               requires_api |-> TRUE, api_description |-> "Process cancellation and initiate refund"]],
    [key |-> "confirm", keywords |-> <<"confirm", "verify", "availability", "available">>,
     task |-> [task_name |-> "Confirm Availability", data_to_collect |-> <<>>,
               requires_api |-> TRUE, api_description |-> "Verify availability through the backend API"]],
    [key |-> "faq", keywords |-> <<"faq", "question", "information", "info", "help">>,
     task |-> [task_name |-> "FAQ & Information", data_to_collect |-> <<>>,
               requires_api |-> FALSE, api_description |-> ""]] >>

\* MetaOrchestrator._domain_default_tasks
_domain_default_tasks(domain) ==
    IF domain = "healthcare" THEN
        << [task_name |-> "Appointment Booking",
            data_to_collect |-> <<"customer_name", "preferred_date", "preferred_time">>,
            requires_api |-> TRUE,
            api_description |-> "Check available appointment slots and book an appointment"] >>
    ELSE IF domain = "e-commerce" THEN
        << [task_name |-> "Order Status Check", data_to_collect |-> <<"order_number">>,
            requires_api |-> TRUE, api_description |-> "Look up order status by order number"] >>
    ELSE IF domain = "finance" THEN
        << [task_name |-> "Account Inquiry", data_to_collect |-> <<"account_number">>,
            requires_api |-> TRUE, api_description |-> "Retrieve account details and balance"] >>
    ELSE
        << [task_name |-> "General Inquiry", data_to_collect |-> <<"customer_name", "inquiry_details">>,
            requires_api |-> FALSE, api_description |-> ""] >>

RECURSIVE MatchTasksFrom(_, _, _)
\* The "detect other tasks" loop of _detect_tasks from table entry k on.
MatchTasksFrom(text, k, tasks) ==
    IF k > Len(task_patterns) THEN tasks
    ELSE IF task_patterns[k].key = "greet" THEN MatchTasksFrom(text, k + 1, tasks)
    ELSE MatchTasksFrom(text, k + 1,
            IF AnyIn(task_patterns[k].keywords, text)
            THEN Append(tasks, task_patterns[k].task) ELSE tasks)

RECURSIVE DedupTasksFrom(_, _, _)
\* The "deduplicate tasks by name" loop of _detect_tasks.
DedupTasksFrom(tasks, i, unique_tasks) ==
    IF i > Len(tasks) THEN unique_tasks
    ELSE DedupTasksFrom(tasks, i + 1,
            IF \E j \in 1..Len(unique_tasks) : unique_tasks[j].task_name = tasks[i].task_name
            THEN unique_tasks ELSE Append(unique_tasks, tasks[i]))

\* _detect_tasks adding the domain defaults whatever was matched.
_detect_tasks_DefaultsAlways(text, domain) ==
    LET greeted == << task_patterns[1].task >>
        matched == MatchTasksFrom(text, 1, greeted)
    IN DedupTasksFrom(matched \o _domain_default_tasks(domain), 1, <<>>)

\* MetaOrchestrator._detect_tasks
_detect_tasks(text, domain) ==
    LET greeted == << task_patterns[1].task >>
        matched == MatchTasksFrom(text, 1, greeted)
        tasks   == IF Len(matched) <= 1
                   THEN matched \o _domain_default_tasks(domain) ELSE matched
    IN DedupTasksFrom(tasks, 1, <<>>)

(* ------------------------------ slot merge ---------------------------- *)

\* Primary task search that only looks for API-requiring tasks.
PrimaryTaskIndex_ApiOnly(tasks) ==
    IF \E i \in 1..Len(tasks) : tasks[i].requires_api
    THEN CHOOSE i \in 1..Len(tasks) :
            tasks[i].requires_api /\ \A j \in 1..(i - 1) : ~tasks[j].requires_api
    ELSE 0

\* Index of the primary task of _merge_user_slots_into_tasks, 0 for None.
PrimaryTaskIndex(tasks) ==
    IF \E i \in 1..Len(tasks) : tasks[i].requires_api
    THEN CHOOSE i \in 1..Len(tasks) :
            tasks[i].requires_api /\ \A j \in 1..(i - 1) : ~tasks[j].requires_api
    ELSE IF \E i \in 1..Len(tasks) : tasks[i].task_name # "Greeting"
    THEN CHOOSE i \in 1..Len(tasks) :
            tasks[i].task_name # "Greeting" /\ \A j \in 1..(i - 1) : tasks[j].task_name = "Greeting"
    ELSE 0

RECURSIVE MergeSlotsFrom_NoMembershipTest(_, _, _)
\* The merge loop without the "slot not in existing_slots" test.
MergeSlotsFrom_NoMembershipTest(slots, user_slots, k) ==
    IF k > Len(user_slots) THEN slots
    ELSE MergeSlotsFrom_NoMembershipTest(Append(slots, user_slots[k]), user_slots, k + 1)

RECURSIVE MergeSlotsFrom(_, _, _)
\* The merge loop: append every user slot not yet in the list.
MergeSlotsFrom(slots, user_slots, k) ==
    IF k > Len(user_slots) THEN slots
    ELSE MergeSlotsFrom(
            IF \E j \in 1..Len(slots) : slots[j] = user_slots[k]
            THEN slots ELSE Append(slots, user_slots[k]),
            user_slots, k + 1)

\* MetaOrchestrator._merge_user_slots_into_tasks
_merge_user_slots_into_tasks(tasks, user_slots) ==
    LET p == PrimaryTaskIndex(tasks)
    IN IF p = 0
       THEN Append(tasks, [task_name |-> "Collect Customer Information",
                           data_to_collect |-> user_slots,
                           requires_api |-> TRUE,
                           api_description |-> "Store or process collected customer information"])
       ELSE [tasks EXCEPT ![p].data_to_collect = MergeSlotsFrom(@, user_slots, 1)]

(* --------------------------- function inference ----------------------- *)

name_map == <<
    [task |-> "appointment_booking", fn |-> "get_appointment_slots"],
    [task |-> "order_status_check", fn |-> "get_order_status"],
    [task |-> "account_inquiry", fn |-> "get_account_info"],
    [task |-> "file_complaint", fn |-> "submit_complaint"],
    [task |-> "cancellation_processing", fn |-> "process_cancellation"],
    [task |-> "confirm_availability", fn |-> "check_availability"],
    [task |-> "general_inquiry", fn |-> "search_knowledge_base"] >>

IdentChars ==
    { LowerChars[k] : k \in 1..26 } \cup {"0","1","2","3","4","5","6","7","8","9","_"}

RECURSIVE KeepIdentRange(_, _, _)
\* re.sub(r"[^a-z0-9_]", "", s) over s[lo..hi].
KeepIdentRange(s, lo, hi) ==
    IF lo > hi THEN ""
    ELSE IF lo = hi THEN (IF SubSeq(s, lo, lo) \in IdentChars THEN SubSeq(s, lo, lo) ELSE "")
    ELSE LET mid == (lo + hi) \div 2
         IN KeepIdentRange(s, lo, mid) \o KeepIdentRange(s, mid + 1, hi)

\* MetaOrchestrator._task_to_function_name
_task_to_function_name(task_name) ==
    IF \E k \in 1..Len(name_map) : name_map[k].task = task_name
    THEN name_map[CHOOSE k \in 1..Len(name_map) : name_map[k].task = task_name].fn
    ELSE LET clean == KeepIdentRange(task_name, 1, Len(task_name))
         IN IF clean # "" THEN clean ELSE "perform_action"

\* A type rule that tests count and quantity first.
ParamType_CountFirst(slot) ==
    LET s == Lower(slot)
    IN IF Contains("count", s) \/ Contains("quantity", s) THEN "integer"
       ELSE "string"

\* The param_type _task_to_function_params gives a slot.
ParamType(slot) ==
    LET s == Lower(slot)
    IN IF Contains("date", s) THEN "string"
       ELSE IF Contains("number", s) \/ Contains("amount", s) THEN "string"
       ELSE IF Contains("count", s) \/ Contains("quantity", s) THEN "integer"
       ELSE "string"

\* MetaOrchestrator._task_to_function_params
_task_to_function_params(task) ==
    [ k \in 1..Len(Get(task, "data_to_collect", <<>>)) |->
        [name |-> task.data_to_collect[k],
         type |-> ParamType(task.data_to_collect[k]),
         description |-> "The customer's " \o Replace(task.data_to_collect[k], "_", " ")] ]

\* MetaOrchestrator._detect_voice_gender
_detect_voice_gender(text) ==
    IF Contains("male voice", text) \/ Contains("male agent", text) THEN "male"
    ELSE IF Contains("female voice", text) \/ Contains("female agent", text) THEN "female"
    ELSE "female"

output_map == <<
    [fn |-> "get_appointment_slots", out |-> "List of available appointment slots with dates and times"],
    [fn |-> "book_appointment", out |-> "Booking confirmation with confirmation code"],
    [fn |-> "get_order_status", out |-> "Order status including tracking info and estimated delivery"],
    [fn |-> "get_account_info", out |-> "Account details including balance and recent activity"],
    [fn |-> "submit_complaint", out |-> "Complaint ticket ID and status"],
    [fn |-> "process_cancellation", out |-> "Cancellation confirmation and refund details"],
    [fn |-> "check_availability", out |-> "Availability status with available options"],
    [fn |-> "search_knowledge_base", out |-> "Relevant FAQ entries or knowledge base articles"] >>

\* MetaOrchestrator._infer_output
_infer_output(fn_name) ==
    IF \E k \in 1..Len(output_map) : output_map[k].fn = fn_name
    THEN output_map[CHOOSE k \in 1..Len(output_map) : output_map[k].fn = fn_name].out
    ELSE "JSON response with operation result"

\* Python: task_name.lower().replace(" ", "_")
TaskKey(task) == Replace(Lower(task.task_name), " ", "_")

RECURSIVE DetectFunctionsFrom_EveryTask(_, _, _)
\* The loop of _detect_functions without the requires_api test.
DetectFunctionsFrom_EveryTask(tasks, i, functions) ==
    IF i > Len(tasks) THEN functions
    ELSE LET fn_name == _task_to_function_name(TaskKey(tasks[i]))
         IN DetectFunctionsFrom_EveryTask(tasks, i + 1,
                Append(functions,
                       [name |-> fn_name,
                        purpose |-> tasks[i].api_description,
                        input_params |-> _task_to_function_params(tasks[i]),
                        expected_output |-> _infer_output(fn_name)]))

RECURSIVE DetectFunctionsFrom(_, _, _)
\* The loop of _detect_functions.
DetectFunctionsFrom(tasks, i, functions) ==
    IF i > Len(tasks) THEN functions
    ELSE IF ~tasks[i].requires_api THEN DetectFunctionsFrom(tasks, i + 1, functions)
    ELSE LET fn_name == _task_to_function_name(TaskKey(tasks[i]))
         IN DetectFunctionsFrom(tasks, i + 1,
                Append(functions,
                       [name |-> fn_name,
                        purpose |-> tasks[i].api_description,
                        input_params |-> _task_to_function_params(tasks[i]),
                        expected_output |-> _infer_output(fn_name)]))

\* MetaOrchestrator._detect_functions
_detect_functions(tasks) == DetectFunctionsFrom(tasks, 1, <<>>)

\* MetaOrchestrator._analyze_with_rules
_analyze_with_rules(prompt) ==
    LET prompt_lower == Lower(prompt)
        domain       == _detect_domain(prompt_lower)
        user_slots   == _extract_user_slots(prompt_lower)
        detected     == _detect_tasks(prompt_lower, domain)
        tasks        == IF user_slots # <<>>
                        THEN _merge_user_slots_into_tasks(detected, user_slots)
                        ELSE detected
    IN [domain |-> domain,
        user_requested_slots |-> user_slots,
        tasks |-> tasks,
        functions_needed |-> _detect_functions(tasks)]

(* ---------------------------- flow synthesis -------------------------- *)

FlowNode(node_id, type, collect_slot, function_call) ==
    [node_id |-> node_id, type |-> type, collect_slot |-> collect_slot,
     function_call |-> function_call, transitions |-> <<>>]

\* Python: task.get("task_name", "task").lower().replace(" ", "_")
FlowTaskKey(task) == Replace(Lower(Get(task, "task_name", "task")), " ", "_")

\* Python: slot.lower().replace(" ", "_")
SlotId(slot) == Replace(Lower(slot), " ", "_")

\* matching_fn without the fallback to the first function.
MatchingFn_NoFallback(task, functions_needed) ==
    LET hit(k) == \/ Contains(FlowTaskKey(task), functions_needed[k].name)
                  \/ Contains(functions_needed[k].name, Get(task, "api_description", ""))
    IN IF \E k \in 1..Len(functions_needed) : hit(k)
       THEN functions_needed[CHOOSE k \in 1..Len(functions_needed) :
                                hit(k) /\ \A j \in 1..(k - 1) : ~hit(j)].name
       ELSE None

\* matching_fn that looks for the task name in the function names only.
MatchingFn_NameOnly(task, functions_needed) ==
    LET hit(k) == Contains(FlowTaskKey(task), functions_needed[k].name)
    IN IF \E k \in 1..Len(functions_needed) : hit(k)
       THEN functions_needed[CHOOSE k \in 1..Len(functions_needed) :
                                hit(k) /\ \A j \in 1..(k - 1) : ~hit(j)].name
       ELSE IF functions_needed # <<>> THEN functions_needed[1].name
       ELSE None

\* The function an api_call node refers to (_build_flow, "matching_fn").
MatchingFn(task, functions_needed) ==
    LET hit(k) == \/ Contains(FlowTaskKey(task), functions_needed[k].name)
                  \/ Contains(functions_needed[k].name, Get(task, "api_description", ""))
    IN IF \E k \in 1..Len(functions_needed) : hit(k)
       THEN functions_needed[CHOOSE k \in 1..Len(functions_needed) :
                                hit(k) /\ \A j \in 1..(k - 1) : ~hit(j)].name
       ELSE IF functions_needed # <<>> THEN functions_needed[1].name
       ELSE None

\* The nodes _build_flow emits for one task.
TaskNodes(task, functions_needed) ==
    LET slots == Get(task, "data_to_collect", <<>>)
        collect == [ k \in 1..Len(slots) |->
                       FlowNode("node_collect_" \o SlotId(slots[k]), "collect_info",
                                SlotId(slots[k]), None) ]
        task_name == FlowTaskKey(task)
    IN IF Get(task, "requires_api", FALSE)
       THEN collect \o
            << FlowNode("node_api_" \o task_name, "api_call", None,
                        MatchingFn(task, functions_needed)),
               FlowNode("node_decision_" \o task_name, "decision", None, None),
               FlowNode("node_success_" \o task_name, "response", None, None),
               FlowNode("node_failure_" \o task_name, "response", None, None) >>
       ELSE collect

RECURSIVE AllTaskNodes(_, _, _)
AllTaskNodes(tasks, functions_needed, i) ==
    IF i > Len(tasks) THEN <<>>
    ELSE TaskNodes(tasks[i], functions_needed) \o AllTaskNodes(tasks, functions_needed, i + 1)

\* Python: nid in node_map
InNodeMap(nodes, nid) == \E i \in 1..Len(nodes) : nodes[i].node_id = nid

\* node_map[nid]: the dict comprehension keeps the last node with that id.
NodeIndex(nodes, nid) ==
    CHOOSE i \in 1..Len(nodes) :
        nodes[i].node_id = nid /\ \A j \in (i + 1)..Len(nodes) : nodes[j].node_id # nid

\* node_map[nid]["transitions"].append({condition, target_node_id})
AddTransition(nodes, nid, condition, target) ==
    [nodes EXCEPT ![NodeIndex(nodes, nid)].transitions =
        Append(@, [condition |-> condition, target_node_id |-> target])]

\* group_ids of one task in _wire_transitions.
TaskGroup(nodes, task) ==
    LET slots == Get(task, "data_to_collect", <<>>)
        collect == [ k \in 1..Len(slots) |-> "node_collect_" \o SlotId(slots[k]) ]
        api == IF Get(task, "requires_api", FALSE)
               THEN << "node_api_" \o FlowTaskKey(task), "node_decision_" \o FlowTaskKey(task) >>
               ELSE <<>>
    IN SelectSeq(collect \o api, LAMBDA nid : InNodeMap(nodes, nid))

\* Where node_greet goes ("Greeting -> first task node").
GreetTarget(task_groups) ==
    IF task_groups # <<>> /\ task_groups[1] # <<>>
    THEN task_groups[1][1] ELSE "node_confirm"

\* One iteration of the chaining loop: node group[i] of a group.
WireNode(nodes, group, i) ==
    LET nid == group[i]
        has_next == i + 1 <= Len(group)
        next_nid == IF has_next THEN group[i + 1] ELSE "node_confirm"
        type == nodes[NodeIndex(nodes, nid)].type
    IN IF type = "collect_info" THEN AddTransition(nodes, nid, "slot_filled", next_nid)
       ELSE IF type = "api_call" THEN AddTransition(nodes, nid, "api_response_received", next_nid)
       ELSE IF type = "decision" THEN
            LET task_name == Replace(nid, "node_decision_", "")
                success_nid == "node_success_" \o task_name
                failure_nid == "node_failure_" \o task_name
                n1 == IF InNodeMap(nodes, success_nid)
                      THEN AddTransition(AddTransition(nodes, nid, "success", success_nid),
                                         success_nid, "continue", "node_confirm")
                      ELSE nodes
                n2 == IF InNodeMap(n1, failure_nid)
                      THEN AddTransition(
                             AddTransition(
                               AddTransition(n1, nid, "failure", failure_nid),
                               failure_nid, "user_wants_transfer", "node_transfer"),
                             failure_nid, "user_declines_transfer", "node_confirm")
                      ELSE n1
            IN n2
       ELSE nodes

RECURSIVE WireGroup(_, _, _)
WireGroup(nodes, group, i) ==
    IF i > Len(group) THEN nodes ELSE WireGroup(WireNode(nodes, group, i), group, i + 1)

RECURSIVE WireGroups(_, _, _)
WireGroups(nodes, task_groups, g) ==
    IF g > Len(task_groups) THEN nodes
    ELSE WireGroups(WireGroup(nodes, task_groups[g], 1), task_groups, g + 1)

\* _wire_transitions whose confirm node only leads to the end.
_wire_transitions_NoLoopBack(nodes, tasks) ==
    LET task_groups == [ t \in 1..Len(tasks) |-> TaskGroup(nodes, tasks[t]) ]
        greeted == AddTransition(nodes, "node_greet", "user_responds", GreetTarget(task_groups))
        chained == WireGroups(greeted, task_groups, 1)
        confirmed == IF InNodeMap(chained, "node_confirm")
                     THEN AddTransition(chained, "node_confirm", "nothing_else", "node_end")
                     ELSE chained
        fellback == IF InNodeMap(confirmed, "node_fallback")
                    THEN AddTransition(confirmed, "node_fallback", "retry", "node_greet")
                    ELSE confirmed
    IN IF InNodeMap(fellback, "node_transfer")
       THEN AddTransition(fellback, "node_transfer", "transferred", "node_end")
       ELSE fellback

\* AgentCreator._wire_transitions
_wire_transitions(nodes, tasks) ==
    LET task_groups == [ t \in 1..Len(tasks) |-> TaskGroup(nodes, tasks[t]) ]
        greeted == AddTransition(nodes, "node_greet", "user_responds", GreetTarget(task_groups))
        chained == WireGroups(greeted, task_groups, 1)
        confirmed == IF InNodeMap(chained, "node_confirm")
                     THEN AddTransition(
                            AddTransition(chained, "node_confirm", "nothing_else", "node_end"),
                            "node_confirm", "has_more_questions", "node_greet")
                     ELSE chained
        fellback == IF InNodeMap(confirmed, "node_fallback")
                    THEN AddTransition(confirmed, "node_fallback", "retry", "node_greet")
                    ELSE confirmed
    IN IF InNodeMap(fellback, "node_transfer")
       THEN AddTransition(fellback, "node_transfer", "transferred", "node_end")
       ELSE fellback

\* _build_flow that forgets to emit the transfer node.
_build_flow_NoTransferNode(brief) ==
    LET nodes == << FlowNode("node_greet", "greeting", None, None) >>
                 \o AllTaskNodes(Get(brief, "tasks", <<>>), Get(brief, "functions_needed", <<>>), 1)
                 \o << FlowNode("node_confirm", "confirm", None, None),
                       FlowNode("node_fallback", "fallback", None, None),
                       FlowNode("node_end", "end", None, None) >>
    IN [name |-> Get(brief, "domain", "general") \o "_flow",
        entry_node_id |-> "node_greet",
        nodes |-> _wire_transitions(nodes, Get(brief, "tasks", <<>>))]

\* _build_flow that names an entry node it never emitted.
_build_flow_EntryTypo(brief) ==
    LET nodes == << FlowNode("node_greet", "greeting", None, None) >>
                 \o AllTaskNodes(Get(brief, "tasks", <<>>), Get(brief, "functions_needed", <<>>), 1)
                 \o << FlowNode("node_confirm", "confirm", None, None),
                       FlowNode("node_fallback", "fallback", None, None),
                       FlowNode("node_transfer", "transfer", None, None),
                       FlowNode("node_end", "end", None, None) >>
    IN [name |-> Get(brief, "domain", "general") \o "_flow",
        entry_node_id |-> "node_greeting",
        nodes |-> _wire_transitions(nodes, Get(brief, "tasks", <<>>))]

\* AgentCreator._build_flow
_build_flow(brief) ==
    LET nodes == << FlowNode("node_greet", "greeting", None, None) >>
                 \o AllTaskNodes(Get(brief, "tasks", <<>>), Get(brief, "functions_needed", <<>>), 1)
                 \o << FlowNode("node_confirm", "confirm", None, None),
                       FlowNode("node_fallback", "fallback", None, None),
                       FlowNode("node_transfer", "transfer", None, None),
                       FlowNode("node_end", "end", None, None) >>
    IN [name |-> Get(brief, "domain", "general") \o "_flow",
        entry_node_id |-> "node_greet",
        nodes |-> _wire_transitions(nodes, Get(brief, "tasks", <<>>))]

(* --------------------------- function creator ------------------------- *)

\* _infer_http_method testing the DELETE verbs before the others.
_infer_http_method_DeleteFirst(name, purpose) ==
    LET name_lower == Lower(name)
        purpose_lower == Lower(purpose)
    IN IF AnyIn(<<"delete", "cancel", "remove">>, name_lower) THEN "DELETE"
       ELSE IF AnyIn(<<"get", "fetch", "list", "check", "search", "find", "lookup">>, name_lower) THEN "GET"
       ELSE IF AnyIn(<<"create", "book", "schedule", "submit", "register">>, name_lower) THEN "POST"
       ELSE IF AnyIn(<<"update", "modify", "change">>, name_lower) THEN "PUT"
       ELSE IF AnyIn(<<"retrieve", "query", "look up">>, purpose_lower) THEN "GET"
       ELSE "POST"

\* _infer_http_method scanning name and purpose together for the verbs.
_infer_http_method_PurposeToo(name, purpose) ==
    LET both == Lower(purpose) \o " " \o Lower(name)
    IN IF AnyIn(<<"create", "book", "schedule", "submit", "register">>, both) THEN "POST"
       ELSE IF AnyIn(<<"get", "fetch", "list", "check", "search", "find", "lookup">>, both) THEN "GET"
       ELSE IF AnyIn(<<"update", "modify", "change">>, both) THEN "PUT"
       ELSE IF AnyIn(<<"delete", "cancel", "remove">>, both) THEN "DELETE"
       ELSE IF AnyIn(<<"retrieve", "query", "look up">>, both) THEN "GET"
       ELSE "POST"

\* FunctionCreator._infer_http_method
_infer_http_method(name, purpose) ==
    LET name_lower == Lower(name)
        purpose_lower == Lower(purpose)
    IN IF AnyIn(<<"get", "fetch", "list", "check", "search", "find", "lookup">>, name_lower) THEN "GET"
       ELSE IF AnyIn(<<"create", "book", "schedule", "submit", "register">>, name_lower) THEN "POST"
       ELSE IF AnyIn(<<"update", "modify", "change">>, name_lower) THEN "PUT"
       ELSE IF AnyIn(<<"delete", "cancel", "remove">>, name_lower) THEN "DELETE"
       ELSE IF AnyIn(<<"retrieve", "query", "look up">>, purpose_lower) THEN "GET"
       ELSE "POST"

\* FunctionCreator._build_function
_build_function(fn_req) ==
    LET name == Get(fn_req, "name", "unknown_function")
        purpose == Get(fn_req, "purpose", "Perform an action")
        input_params == Get(fn_req, "input_params", <<>>)
        expected_output == Get(fn_req, "expected_output", "JSON response")
    IN [name |-> name,
        description |-> purpose
            \o ". This function is called during the conversation when the agent needs to "
            \o Lower(purpose) \o ". Returns: " \o expected_output,
        parameters |-> [ k \in 1..Len(input_params) |->
                           LET param == input_params[k]
                           IN [name |-> Get(param, "name", "param"),
                               type |-> Get(param, "type", "string"),
                               description |-> Get(param, "description",
                                   "The " \o Get(param, "name", "param") \o " value"),
                               required |-> Get(param, "required", TRUE),
                               default |-> Get(param, "default", None),
                               enum |-> Get(param, "enum", Nothing)] ],
        returns_description |-> expected_output,
        api_endpoint |-> [method |-> _infer_http_method(name, purpose)]]

\* FunctionCreator._create_with_rules
FunctionCreator_create_with_rules(functions_needed) ==
    [ k \in 1..Len(functions_needed) |-> _build_function(functions_needed[k]) ]

\* The JSON-schema property to_openai_tools builds for one parameter.
ToolProperty(p) ==
    [type |-> Get(p, "type", "string"), description |-> Get(p, "description", "")]
        @@ (IF Get(p, "enum", Nothing) # Nothing THEN "enum" :> p.enum ELSE <<>>)
        @@ (IF Get(p, "default", None) # None THEN "default" :> p.default ELSE <<>>)

\* The properties dict of one function: a later parameter of the same name
\* replaces an earlier one.
ToolProperties(params) ==
    [ n \in { params[j].name : j \in 1..Len(params) } |->
        ToolProperty(params[CHOOSE j \in 1..Len(params) :
                               /\ params[j].name = n
                               /\ \A l \in (j + 1)..Len(params) : params[l].name # n]) ]

\* to_openai_tools listing every parameter as required.
to_openai_tools_AllRequired(functions) ==
    [ k \in 1..Len(functions) |->
        LET fn == functions[k]
            params == Get(fn, "parameters", <<>>)
        IN [type |-> "function",
            function |->
              [name |-> fn.name,
               description |-> Get(fn, "description", ""),
               parameters |->
                 [type |-> "object",
                  properties |-> ToolProperties(params),
                  required |-> [ j \in 1..Len(params) |-> params[j].name ]]]] ]

\* FunctionCreator.to_openai_tools
to_openai_tools(functions) ==
    [ k \in 1..Len(functions) |->
        LET fn == functions[k]
            params == Get(fn, "parameters", <<>>)
            required == SelectSeq(params, LAMBDA p : Get(p, "required", TRUE))
        IN [type |-> "function",
            function |->
              [name |-> fn.name,
               description |-> Get(fn, "description", ""),
               parameters |->
                 [type |-> "object",
                  properties |-> ToolProperties(params),
                  required |-> [ j \in 1..Len(required) |-> required[j].name ]]]] ]

(* ------------------------------ config merge -------------------------- *)

\* The key of the KeyError one function definition raises in _merge_config
\* or to_openai_tools (p["name"], fn["name"]), "" when there is none.
FunctionKeyError(fn_raw) ==
    IF \/ \E p \in Range(Get(fn_raw, "parameters", <<>>)) : "name" \notin DOMAIN p
       \/ "name" \notin DOMAIN fn_raw
    THEN "name" ELSE ""

\* The key of the KeyError one flow node raises in _merge_config
\* (t["condition"], t["target_node_id"], n["node_id"]), "" when none.
NodeKeyError(n) ==
    LET ts == Get(n, "transitions", <<>>)
        bad == { j \in 1..Len(ts) :
                   "condition" \notin DOMAIN ts[j] \/ "target_node_id" \notin DOMAIN ts[j] }
    IN IF bad # {}
       THEN LET j == CHOOSE j \in bad : \A l \in bad : j <= l
            IN IF "condition" \notin DOMAIN ts[j] THEN "condition" ELSE "target_node_id"
       ELSE IF "node_id" \notin DOMAIN n THEN "node_id" ELSE ""

\* The first non-empty entry of a sequence of error keys, "" when none.
FirstError(errors) ==
    IF \E i \in 1..Len(errors) : errors[i] # ""
    THEN errors[CHOOSE i \in 1..Len(errors) :
                   errors[i] # "" /\ \A j \in 1..(i - 1) : errors[j] = ""]
    ELSE ""

\* The key of the KeyError _merge_config raises, "" when it completes:
\* the function definitions are built before the flow.
MergeKeyError(agent_raw, functions) ==
    LET flow_raw == Get(agent_raw, "conversation_flow", Nothing)
        nodes == Get(flow_raw, "nodes", <<>>)
    IN FirstError([ k \in 1..Len(functions) |-> FunctionKeyError(functions[k]) ]
                  \o [ i \in 1..Len(nodes) |-> NodeKeyError(nodes[i]) ])

\* FunctionParameter(...) that never marks a parameter as required.
FunctionParameter_NeverRequired(p) ==
    [name |-> p.name,
     type |-> Get(p, "type", "string"),
     description |-> Get(p, "description", ""),
     required |-> FALSE,
     default |-> Get(p, "default", None),
     enum |-> Get(p, "enum", Nothing)]

\* FunctionParameter(...) as _merge_config builds it
FunctionParameter(p) ==
    [name |-> p.name,
     type |-> Get(p, "type", "string"),
     description |-> Get(p, "description", ""),
     required |-> Get(p, "required", TRUE),
     default |-> Get(p, "default", None),
     enum |-> Get(p, "enum", Nothing)]

\* FunctionDefinition(...) as _merge_config builds it; function_id comes
\* from the default factory.
FunctionDefinition(fn_raw, function_id) ==
    [function_id |-> function_id,
     name |-> fn_raw.name,
     description |-> Get(fn_raw, "description", ""),
     parameters |-> [ j \in 1..Len(Get(fn_raw, "parameters", <<>>)) |->
                        FunctionParameter(fn_raw.parameters[j]) ],
     returns_description |-> Get(fn_raw, "returns_description", ""),
     api_endpoint |-> IF Get(fn_raw, "api_endpoint", Nothing) = Nothing THEN Nothing
                      ELSE [method |-> Get(fn_raw.api_endpoint, "method", "POST")]]

\* The values of the ParamType enum.
ParamTypeValues == {"string", "integer", "number", "boolean", "array", "object"}

\* p.type.value: the value of the enum member the type was validated to.
ParamTypeValue(type) == CHOOSE v \in ParamTypeValues : v = type

\* The prop dict to_openai_tool_schema builds for one FunctionParameter.
SchemaProperty(p) ==
    [type |-> ParamTypeValue(p.type), description |-> p.description]
        @@ (IF p.enum # Nothing THEN "enum" :> p.enum ELSE <<>>)
        @@ (IF p.default # None THEN "default" :> p.default ELSE <<>>)

\* FunctionDefinition.to_openai_tool_schema
to_openai_tool_schema(self) ==
    LET params == self.parameters
        required == SelectSeq(params, LAMBDA p : p.required)
    IN [type |-> "function",
        function |->
          [name |-> self.name,
           description |-> self.description,
           parameters |->
             [type |-> "object",
              properties |->
                [ n \in { params[j].name : j \in 1..Len(params) } |->
                    SchemaProperty(params[CHOOSE j \in 1..Len(params) :
                                             /\ params[j].name = n
                                             /\ \A l \in (j + 1)..Len(params) :
                                                    params[l].name # n]) ],
              required |-> [ j \in 1..Len(required) |-> required[j].name ]]]]

\* FlowNode(...) as _merge_config builds it
MergedFlowNode(n) ==
    [node_id |-> n.node_id,
     type |-> Get(n, "type", "response"),
     collect_slot |-> Get(n, "collect_slot", None),
     function_call |-> Get(n, "function_call", None),
     transitions |-> [ j \in 1..Len(Get(n, "transitions", <<>>)) |->
                         [condition |-> n.transitions[j].condition,
                          target_node_id |-> n.transitions[j].target_node_id] ]]

\* _merge_config that also stamps the metadata with the clock.
_merge_config_StampedMetadata(brief, agent_raw, functions, mode, seed, now) ==
    LET flow_raw == Get(agent_raw, "conversation_flow", Nothing)
    IN [agent_id |-> uuid4(seed, "agent", 1),
        created_at |-> now,
        functions |-> [ k \in 1..Len(functions) |->
                          FunctionDefinition(functions[k], uuid4(seed, "fn", k)) ],
        conversation_flow |->
            IF flow_raw = Nothing THEN Nothing
            ELSE [flow_id |-> uuid4(seed, "flow", 1),
                  name |-> Get(flow_raw, "name", "main_flow"),
                  entry_node_id |-> Get(flow_raw, "entry_node_id", "node_greet"),
                  nodes |-> [ i \in 1..Len(Get(flow_raw, "nodes", <<>>)) |->
                                MergedFlowNode(flow_raw.nodes[i]) ]],
        metadata |-> [source_prompt |-> Get(brief, "domain", ""),
                      generation_mode |-> mode,
                      generated_at |-> now]]

\* MetaOrchestrator._merge_config, when it raises nothing; seed is the
\* random source of uuid4 and now the value of datetime.utcnow().
_merge_config(brief, agent_raw, functions, mode, seed, now) ==
    LET flow_raw == Get(agent_raw, "conversation_flow", Nothing)
    IN [agent_id |-> uuid4(seed, "agent", 1),
        created_at |-> now,
        functions |-> [ k \in 1..Len(functions) |->
                          FunctionDefinition(functions[k], uuid4(seed, "fn", k)) ],
        conversation_flow |->
            IF flow_raw = Nothing THEN Nothing
            ELSE [flow_id |-> uuid4(seed, "flow", 1),
                  name |-> Get(flow_raw, "name", "main_flow"),
                  entry_node_id |-> Get(flow_raw, "entry_node_id", "node_greet"),
                  nodes |-> [ i \in 1..Len(Get(flow_raw, "nodes", <<>>)) |->
                                MergedFlowNode(flow_raw.nodes[i]) ]],
        metadata |-> [source_prompt |-> Get(brief, "domain", ""),
                      generation_mode |-> mode]]

\* AgentCreateResponse of a successful process_request; message is the
\* prefix before the persona name and the counts, and openai_tools_schema
\* the one-element tuple of the list (Nothing stands for None).
SuccessResponse(config, tools, brief) ==
    [success |-> TRUE,
     message |-> "Successfully created CX agent",
     agent_config |-> config,
     openai_tools_schema |-> <<tools>>,
     raw_analysis |-> brief]

\* An except branch that reports success.
FailureResponse_SuccessFlag(error) ==
    [success |-> TRUE,
     message |-> "Failed to create agent: " \o error,
     agent_config |-> Nothing,
     openai_tools_schema |-> Nothing,
     raw_analysis |-> Nothing]

\* AgentCreateResponse of the except branch of process_request
FailureResponse(error) ==
    [success |-> FALSE,
     message |-> "Failed to create agent: " \o error,
     agent_config |-> Nothing,
     openai_tools_schema |-> Nothing,
     raw_analysis |-> Nothing]

(* ------------------------------ LLM mode ------------------------------ *)

\* What one chat.completions.create call followed by json.loads yields: the
\* parsed JSON object, or an exception (API error, unparsable content).
LLMFailure == [ok |-> FALSE]

LLMOutcomes(replies) == { LLMFailure } \cup { [ok |-> TRUE, json |-> r] : r \in replies }

\* A brief the analysis LLM may return.
LLMBrief ==
    [domain |-> "travel",
     tasks |-> << [task_name |-> "Greeting", data_to_collect |-> <<>>,
                   requires_api |-> FALSE, api_description |-> ""],
                  [task_name |-> "Flight Booking", data_to_collect |-> <<"customer_name">>,
                   requires_api |-> TRUE, api_description |-> "Book a flight"] >>,
     functions_needed |->
        << [name |-> "book_flight", purpose |-> "Book a flight",
            input_params |-> << [name |-> "customer_name", type |-> "string",
                                 description |-> "Passenger name", required |-> FALSE] >>,
            expected_output |-> "Booking reference"] >>]

\* A brief whose task has no task_name and whose function requirement has
\* no name.
LLMBriefNoNames ==
    [tasks |-> << [data_to_collect |-> <<"email">>, requires_api |-> TRUE] >>,
     functions_needed |-> << [purpose |-> "Store the email address"] >>]

\* A brief whose task description names the function to call, which is not
\* the first requirement.
LLMBriefNamedCall ==
    [domain |-> "travel",
     tasks |-> << [task_name |-> "Seat Change", data_to_collect |-> <<>>,
                   requires_api |-> TRUE,
                   api_description |-> "Use change_seat to move the passenger"] >>,
     functions_needed |->
        << [name |-> "cancel_flight", purpose |-> "Cancel a flight"],
           [name |-> "change_seat", purpose |-> "Change the seat"] >>]

\* The JSON objects the analysis call is given here; Nothing is {}.
AnalysisReplies == { LLMBrief, LLMBriefNoNames, LLMBriefNamedCall, Nothing }

\* An agent draft the agent-creator LLM may return.
LLMDraft ==
    [conversation_flow |->
        [name |-> "llm_flow", entry_node_id |-> "node_greet",
         nodes |-> << [node_id |-> "node_greet", type |-> "greeting",
                       transitions |-> << [condition |-> "always",
                                           target_node_id |-> "node_end"] >>],
                      [node_id |-> "node_end", type |-> "end"] >>]]

\* A draft with a node that has no node_id.
LLMDraftNoNodeId ==
    [conversation_flow |-> [nodes |-> << [type |-> "greeting"] >>]]

AgentReplies == { LLMDraft, LLMDraftNoNodeId }

\* A catalogue the function-creator LLM may return: required true, false
\* and absent.
LLMFunctions ==
    [functions |->
        << [name |-> "book_flight", description |-> "Book a flight for the caller",
            parameters |-> << [name |-> "customer_name", type |-> "string",
                               description |-> "Passenger name", required |-> TRUE],
                              [name |-> "seat_class", type |-> "string",
                               description |-> "Cabin", required |-> FALSE,
                               enum |-> <<"economy", "business">>, default |-> "economy"],
                              [name |-> "flight_date", type |-> "string"] >>,
            api_endpoint |-> [url |-> "/api/v1/flights", method |-> "POST"]],
           [name |-> "cancel_flight",
            parameters |-> << [name |-> "reason", required |-> FALSE] >>] >>]

\* A catalogue with a function that has no name.
LLMFunctionsNoName ==
    [functions |-> << [description |-> "Nameless", parameters |-> << [name |-> "id"] >>] >>]

FunctionReplies == { LLMFunctions, LLMFunctionsNoName, Nothing }

\* MetaOrchestrator._analyze_with_llm: the brief, the LLM calls made and
\* whether the rules were fallen back to.
_analyze_with_llm(prompt, outcome) ==
    IF outcome.ok
    THEN [result |-> outcome.json, llm_calls |-> 1, fell_back |-> FALSE]
    ELSE [result |-> _analyze_with_rules(prompt), llm_calls |-> 1, fell_back |-> TRUE]

\* MetaOrchestrator._analyze_request
_analyze_request(client, prompt, outcome) ==
    IF client THEN _analyze_with_llm(prompt, outcome)
    ELSE [result |-> _analyze_with_rules(prompt), llm_calls |-> 0, fell_back |-> FALSE]

\* The key of the KeyError _build_flow raises (f["name"]), "" when none.
BuildFlowKeyError(brief) ==
    IF \E f \in Range(Get(brief, "functions_needed", <<>>)) : "name" \notin DOMAIN f
    THEN "name" ELSE ""

\* AgentCreator._create_with_rules: the draft, or the error it raises.
AgentCreator_create_with_rules(brief) ==
    IF BuildFlowKeyError(brief) # ""
    THEN [result |-> Nothing, error |-> BuildFlowKeyError(brief)]
    ELSE [result |-> [conversation_flow |-> _build_flow(brief)], error |-> ""]

\* AgentCreator._create_with_llm
AgentCreator_create_with_llm(brief, outcome) ==
    IF outcome.ok
    THEN [result |-> outcome.json, error |-> "", llm_calls |-> 1, fell_back |-> FALSE]
    ELSE AgentCreator_create_with_rules(brief) @@ [llm_calls |-> 1, fell_back |-> TRUE]

\* AgentCreator.create_agent_config
create_agent_config(client, brief, outcome) ==
    IF client THEN AgentCreator_create_with_llm(brief, outcome)
    ELSE AgentCreator_create_with_rules(brief) @@ [llm_calls |-> 0, fell_back |-> FALSE]

\* FunctionCreator._create_with_llm that calls the LLM a second time before
\* it gives up.
FunctionCreator_create_with_llm_Retry(functions_needed, outcome) ==
    IF outcome.ok
    THEN [result |-> Get(outcome.json, "functions", <<>>),
          llm_calls |-> 1, fell_back |-> FALSE]
    ELSE [result |-> FunctionCreator_create_with_rules(functions_needed),
          llm_calls |-> 2, fell_back |-> TRUE]

\* FunctionCreator._create_with_llm
FunctionCreator_create_with_llm(functions_needed, outcome) ==
    IF outcome.ok
    THEN [result |-> Get(outcome.json, "functions", <<>>),
          llm_calls |-> 1, fell_back |-> FALSE]
    ELSE [result |-> FunctionCreator_create_with_rules(functions_needed),
          llm_calls |-> 1, fell_back |-> TRUE]

\* FunctionCreator.create_functions
create_functions(client, functions_needed, outcome) ==
    IF functions_needed = <<>>
    THEN [result |-> <<>>, llm_calls |-> 0, fell_back |-> FALSE]
    ELSE IF client THEN FunctionCreator_create_with_llm(functions_needed, outcome)
    ELSE [result |-> FunctionCreator_create_with_rules(functions_needed),
          llm_calls |-> 0, fell_back |-> FALSE]

(* ------------------------------- inputs ------------------------------- *)

\* Number of random sources uuid4 may draw from.
MaxSeed == 2

\* Number of instants datetime.utcnow() may return.
MaxClock == 2

RECURSIVE Phrases(_)
\* Prompts made of exactly n vocabulary phrases.
Phrases(n) ==
    IF n = 1 THEN Vocabulary
    ELSE { p \o " " \o w : p \in Phrases(n - 1), w \in Vocabulary }

Prompts ==
    { p \in UNION { Phrases(n) : n \in 1..MaxWords } : Len(p) >= MinPromptLen }
        \cup { ExamplePrompt, TestFixPrompt }

\* The prompts of the LLM-mode runs: one that needs functions, one that
\* needs none.
LLMPrompts == { ExamplePrompt, "hello hello" }

EmptyAnalysis ==
    [domain |-> "", user_requested_slots |-> <<>>, tasks |-> <<>>, functions_needed |-> <<>>]

NoCalls == [analysis |-> 0, agent |-> 0, functions |-> 0]

\* A request reaches process_request of an orchestrator built without an
\* LLM client.
Init ==
    /\ pc = "start"
    /\ user_prompt \in Prompts
    /\ analysis = EmptyAnalysis
    /\ agent_config_raw = Nothing
    /\ functions_raw = <<>>
    /\ agent_config = Nothing
    /\ detected_tasks = <<>>
    /\ openai_tools = <<>>
    /\ response = Nothing
    /\ llm_client = FALSE
    /\ llm_calls = NoCalls
    /\ fell_back = {}
    /\ requests = <<>>
    /\ live_patterns = task_patterns
    /\ call = Nothing

\* The same with an LLM client.
InitLLM ==
    /\ pc = "start"
    /\ user_prompt \in LLMPrompts
    /\ analysis = EmptyAnalysis
    /\ agent_config_raw = Nothing
    /\ functions_raw = <<>>
    /\ agent_config = Nothing
    /\ detected_tasks = <<>>
    /\ openai_tools = <<>>
    /\ response = Nothing
    /\ llm_client = TRUE
    /\ llm_calls = NoCalls
    /\ fell_back = {}
    /\ requests = <<>>
    /\ live_patterns = task_patterns
    /\ call = Nothing

\* The outcomes of the LLM call of a stage; without a client none is made.
StageOutcomes(replies) == IF llm_client THEN LLMOutcomes(replies) ELSE { LLMFailure }

\* process_request, step 1: _analyze_request
AnalyzeRequest ==
    /\ pc = "start"
    /\ \E outcome \in StageOutcomes(AnalysisReplies) :
          \E r \in { _analyze_request(llm_client, user_prompt, outcome) } :
             /\ analysis' = r.result
             /\ llm_calls' = [llm_calls EXCEPT !.analysis = @ + r.llm_calls]
             /\ fell_back' = IF r.fell_back THEN fell_back \cup {"analysis"} ELSE fell_back
             /\ detected_tasks' =
                   IF llm_client /\ ~r.fell_back THEN <<>>
                   ELSE _detect_tasks(Lower(user_prompt), _detect_domain(Lower(user_prompt)))
    /\ pc' = "analyzed"
    /\ UNCHANGED <<user_prompt, agent_config_raw, functions_raw, agent_config,
                   openai_tools, response, llm_client>>
    /\ UNCHANGED <<requests, live_patterns, call>>

\* process_request, step 2: AgentCreator.create_agent_config; an exception
\* ends the request in the except branch.
CreateAgentConfig ==
    /\ pc = "analyzed"
    /\ \E outcome \in StageOutcomes(AgentReplies) :
          \E r \in { create_agent_config(llm_client, analysis, outcome) } :
             /\ llm_calls' = [llm_calls EXCEPT !.agent = @ + r.llm_calls]
             /\ fell_back' = IF r.fell_back THEN fell_back \cup {"agent"} ELSE fell_back
             /\ IF r.error # ""
                THEN /\ pc' = "failed"
                     /\ response' = FailureResponse("'" \o r.error \o "'")
                     /\ UNCHANGED agent_config_raw
                ELSE /\ pc' = "agent_created"
                     /\ agent_config_raw' = r.result
                     /\ UNCHANGED response
    /\ UNCHANGED <<user_prompt, analysis, functions_raw, agent_config, detected_tasks,
                   openai_tools, llm_client>>
    /\ UNCHANGED <<requests, live_patterns, call>>

\* A step 3 that empties the functions_needed list of the brief it was
\* handed.
CreateFunctions_ConsumesRequirements ==
    /\ pc = "agent_created"
    /\ \E outcome \in StageOutcomes(FunctionReplies) :
          \E r \in { create_functions(llm_client, Get(analysis, "functions_needed", <<>>), outcome) } :
             /\ functions_raw' = r.result
             /\ llm_calls' = [llm_calls EXCEPT !.functions = @ + r.llm_calls]
             /\ fell_back' = IF r.fell_back THEN fell_back \cup {"functions"} ELSE fell_back
    /\ pc' = "functions_created"
    /\ analysis' = [analysis EXCEPT !.functions_needed = <<>>]
    /\ UNCHANGED <<user_prompt, agent_config_raw, agent_config, detected_tasks,
                   openai_tools, response, llm_client>>
    /\ UNCHANGED <<requests, live_patterns, call>>

\* process_request, step 3: FunctionCreator.create_functions
CreateFunctions ==
    /\ pc = "agent_created"
    /\ \E outcome \in StageOutcomes(FunctionReplies) :
          \E r \in { create_functions(llm_client, Get(analysis, "functions_needed", <<>>), outcome) } :
             /\ functions_raw' = r.result
             /\ llm_calls' = [llm_calls EXCEPT !.functions = @ + r.llm_calls]
             /\ fell_back' = IF r.fell_back THEN fell_back \cup {"functions"} ELSE fell_back
    /\ pc' = "functions_created"
    /\ UNCHANGED <<user_prompt, analysis, agent_config_raw, agent_config, detected_tasks,
                   openai_tools, response, llm_client>>
    /\ UNCHANGED <<requests, live_patterns, call>>

\* process_request, step 4: _merge_config; the ids and created_at come from
\* uuid4 and the clock.
MergeConfig ==
    /\ pc = "functions_created"
    /\ \E error \in { MergeKeyError(agent_config_raw, functions_raw) } :
       IF error # ""
       THEN /\ pc' = "failed"
            /\ response' = FailureResponse("'" \o error \o "'")
            /\ UNCHANGED agent_config
       ELSE /\ pc' = "merged"
            /\ \E seed \in 1..MaxSeed, now \in 1..MaxClock :
                  agent_config' = _merge_config(analysis, agent_config_raw, functions_raw,
                                                IF llm_client THEN "llm" ELSE "rule_based",
                                                seed, now)
            /\ UNCHANGED response
    /\ UNCHANGED <<user_prompt, analysis, agent_config_raw, functions_raw, detected_tasks,
                   openai_tools, llm_client, llm_calls, fell_back>>
    /\ UNCHANGED <<requests, live_patterns, call>>

\* process_request, step 5: to_openai_tools and the response
ToOpenAITools ==
    /\ pc = "merged"
    /\ pc' = "done"
    /\ \E tools \in { to_openai_tools(functions_raw) } :
          /\ openai_tools' = tools
          /\ response' = SuccessResponse(agent_config, tools, analysis)
    /\ UNCHANGED <<user_prompt, analysis, agent_config_raw, functions_raw, agent_config,
                   detected_tasks, llm_client, llm_calls, fell_back>>
    /\ UNCHANGED <<requests, live_patterns, call>>

Next ==
    AnalyzeRequest \/ CreateAgentConfig \/ CreateFunctions \/ MergeConfig \/ ToOpenAITools

Spec == Init /\ [][Next]_vars

SpecLLM == InitLLM /\ [][Next]_vars

(* ----------------- requests sharing one orchestrator ------------------ *)

\* Largest number of process_request invocations in flight on one
\* orchestrator.
MaxRequests == 2

\* The prompts of these invocations: both match the same table entry, one
\* of them with a user slot to merge.
RequestPrompts == { "appointment Email", "appointment hello" }

\* A table that lives on the orchestrator: each call reads and mutates the
\* object the call before it left behind.
TaskPatternsOfCall_Shared(previous) == previous

\* The table object a call of _detect_tasks reads: the dict literal is
\* evaluated anew by every call, whatever object an earlier call left.
TaskPatternsOfCall(previous) == task_patterns

RECURSIVE MatchTasksIn(_, _, _, _)
\* The "detect other tasks" loop of _detect_tasks over the table object
\* patterns.
MatchTasksIn(patterns, text, k, tasks) ==
    IF k > Len(patterns) THEN tasks
    ELSE IF patterns[k].key = "greet" THEN MatchTasksIn(patterns, text, k + 1, tasks)
    ELSE MatchTasksIn(patterns, text, k + 1,
            IF AnyIn(patterns[k].keywords, text)
            THEN Append(tasks, patterns[k].task) ELSE tasks)

\* _detect_tasks over the table object patterns.
DetectTasksIn(patterns, text, domain) ==
    LET matched == MatchTasksIn(patterns, text, 1, << patterns[1].task >>)
    IN DedupTasksFrom(IF Len(matched) <= 1
                      THEN matched \o _domain_default_tasks(domain) ELSE matched,
                      1, <<>>)

\* _analyze_with_rules over the table object patterns.
AnalyzeWithRulesIn(patterns, prompt) ==
    LET prompt_lower == Lower(prompt)
        user_slots   == _extract_user_slots(prompt_lower)
        detected     == DetectTasksIn(patterns, prompt_lower, _detect_domain(prompt_lower))
        tasks        == IF user_slots # <<>>
                        THEN _merge_user_slots_into_tasks(detected, user_slots)
                        ELSE detected
    IN [domain |-> _detect_domain(prompt_lower),
        user_requested_slots |-> user_slots,
        tasks |-> tasks,
        functions_needed |-> _detect_functions(tasks)]

\* The table object after the call: pattern.copy() is shallow, so a task
\* taken from the table shares its data_to_collect list with its entry, and
\* the append of _merge_user_slots_into_tasks shows in the entry of the
\* primary task. Tasks from _domain_default_tasks are no table entries.
PatternsAfterMerge(patterns, tasks, user_slots, from_table) ==
    IF user_slots = <<>> \/ ~from_table \/ PrimaryTaskIndex(tasks) = 0 THEN patterns
    ELSE [ k \in 1..Len(patterns) |->
            IF patterns[k].task.task_name = tasks[PrimaryTaskIndex(tasks)].task_name
            THEN [patterns[k] EXCEPT !.task.data_to_collect = MergeSlotsFrom(@, user_slots, 1)]
            ELSE patterns[k] ]

\* The table object a call of _analyze_with_rules leaves behind.
PatternsAfterCall(patterns, prompt) ==
    PatternsAfterMerge(
        patterns,
        DetectTasksIn(patterns, Lower(prompt), _detect_domain(Lower(prompt))),
        _extract_user_slots(Lower(prompt)),
        Len(MatchTasksIn(patterns, Lower(prompt), 1, << patterns[1].task >>)) > 1)

\* The variables of the request that has the orchestrator to itself.
single_request ==
    <<pc, user_prompt, analysis, agent_config_raw, functions_raw, agent_config,
      detected_tasks, openai_tools, response, llm_client, llm_calls, fell_back>>

\* A request that has reached process_request and not yet run a step.
NewRequest(prompt) ==
    [pc |-> "start", user_prompt |-> prompt, analysis |-> EmptyAnalysis,
     agent_config_raw |-> Nothing, functions_raw |-> <<>>, agent_config |-> Nothing,
     openai_tools |-> <<>>]

\* MaxRequests requests reach one orchestrator built without an LLM client.
InitTwo ==
    /\ pc = "idle"
    /\ user_prompt = ExamplePrompt
    /\ analysis = EmptyAnalysis
    /\ agent_config_raw = Nothing
    /\ functions_raw = <<>>
    /\ agent_config = Nothing
    /\ detected_tasks = <<>>
    /\ openai_tools = <<>>
    /\ response = Nothing
    /\ llm_client = FALSE
    /\ llm_calls = NoCalls
    /\ fell_back = {}
    /\ requests \in [1..MaxRequests -> { NewRequest(p) : p \in RequestPrompts }]
    /\ live_patterns = task_patterns
    /\ call = Nothing

\* process_request of request r, step 1
RequestAnalyze(r) ==
    /\ requests[r].pc = "start"
    /\ \E patterns \in { TaskPatternsOfCall(live_patterns) } :
          /\ requests' = [requests EXCEPT
                ![r].pc = "analyzed",
                ![r].analysis = AnalyzeWithRulesIn(patterns, requests[r].user_prompt)]
          /\ live_patterns' = PatternsAfterCall(patterns, requests[r].user_prompt)
    /\ UNCHANGED <<single_request, call>>

\* process_request of request r, step 2
RequestCreateAgentConfig(r) ==
    /\ requests[r].pc = "analyzed"
    /\ requests' = [requests EXCEPT
          ![r].pc = "agent_created",
          ![r].agent_config_raw =
              create_agent_config(FALSE, requests[r].analysis, LLMFailure).result]
    /\ UNCHANGED <<live_patterns, single_request, call>>

\* process_request of request r, step 3
RequestCreateFunctions(r) ==
    /\ requests[r].pc = "agent_created"
    /\ requests' = [requests EXCEPT
          ![r].pc = "functions_created",
          ![r].functions_raw =
              create_functions(FALSE, requests[r].analysis.functions_needed, LLMFailure).result]
    /\ UNCHANGED <<live_patterns, single_request, call>>

\* process_request of request r, steps 4 and 5: no await lies between
\* _merge_config, to_openai_tools and the return.
RequestMergeConfig(r) ==
    /\ requests[r].pc = "functions_created"
    /\ \E seed \in 1..MaxSeed, now \in 1..MaxClock :
          requests' = [requests EXCEPT
             ![r].pc = "done",
             ![r].agent_config = _merge_config(requests[r].analysis, requests[r].agent_config_raw,
                                               requests[r].functions_raw, "rule_based", seed, now),
             ![r].openai_tools = to_openai_tools(requests[r].functions_raw)]
    /\ UNCHANGED <<live_patterns, single_request, call>>

NextTwo ==
    \E r \in 1..MaxRequests :
        \/ RequestAnalyze(r)
        \/ RequestCreateAgentConfig(r)
        \/ RequestCreateFunctions(r)
        \/ RequestMergeConfig(r)

SpecTwo == InitTwo /\ [][NextTwo]_vars

(* --------------------- helpers called on their own -------------------- *)

\* Function names _infer_http_method is called with: verbs of one class, of
\* two classes, in upper case, inside another word, and none.
MethodNames ==
    {"get_order_status", "get_booking", "book_appointment", "schedule_update",
     "update_profile", "change_cancellation", "process_cancellation",
     "remove_listing", "account_info", "Fetch_Items", "forget_device",
     "submit_complaint"}

\* Purposes it is called with.
MethodPurposes ==
    {"Retrieve account details and balance", "Look up order status by order number",
     "Query the ledger", "Store the record", "Check the list of orders",
     "Cancel and RETRIEVE the refund", ""}

\* Lower-cased prompts _detect_voice_gender is called with.
VoiceTexts ==
    {"use a male voice", "a male agent please", "use a female voice",
     "a female agent please", "a friendly support bot", "a female assistant",
     "male", "female voice or male agent", "a deep voice for the agent",
     "agent for males, voice calls"}

\* Slot names _task_to_function_params is called with.
SlotNames ==
    {"preferred_date", "account_number", "item_count", "Quantity",
     "discount_amount", "customer_name", "count_date"}

\* The longest slot list of a task it is called with.
MaxSlots == 2

SlotLists == UNION { [1..n -> SlotNames] : n \in 0..MaxSlots }

\* A call that has not run yet.
PendingCall(fn, args) == [fn |-> fn, args |-> args, returned |-> FALSE, result |-> None]

\* One helper is about to be called on one input; no request is running.
InitCalls ==
    /\ pc = "idle"
    /\ user_prompt = ExamplePrompt
    /\ analysis = EmptyAnalysis
    /\ agent_config_raw = Nothing
    /\ functions_raw = <<>>
    /\ agent_config = Nothing
    /\ detected_tasks = <<>>
    /\ openai_tools = <<>>
    /\ response = Nothing
    /\ llm_client = FALSE
    /\ llm_calls = NoCalls
    /\ fell_back = {}
    /\ requests = <<>>
    /\ live_patterns = task_patterns
    /\ \/ \E name \in MethodNames, purpose \in MethodPurposes :
             call = PendingCall("_infer_http_method", [name |-> name, purpose |-> purpose])
       \/ \E text \in VoiceTexts :
             call = PendingCall("_detect_voice_gender", [text |-> text])
       \/ \E slots \in SlotLists :
             call = PendingCall("_task_to_function_params",
                                [task |-> [task_name |-> "Task", data_to_collect |-> slots]])

\* FunctionCreator._infer_http_method(name, purpose) returns.
CallInferHttpMethod ==
    /\ call.fn = "_infer_http_method" /\ ~call.returned
    /\ call' = [call EXCEPT !.returned = TRUE,
                            !.result = _infer_http_method(call.args.name, call.args.purpose)]
    /\ UNCHANGED <<single_request, requests, live_patterns>>

\* MetaOrchestrator._detect_voice_gender(text) returns.
CallDetectVoiceGender ==
    /\ call.fn = "_detect_voice_gender" /\ ~call.returned
    /\ call' = [call EXCEPT !.returned = TRUE,
                            !.result = _detect_voice_gender(call.args.text)]
    /\ UNCHANGED <<single_request, requests, live_patterns>>

\* MetaOrchestrator._task_to_function_params(task, text) returns.
CallTaskToFunctionParams ==
    /\ call.fn = "_task_to_function_params" /\ ~call.returned
    /\ call' = [call EXCEPT !.returned = TRUE,
                            !.result = _task_to_function_params(call.args.task)]
    /\ UNCHANGED <<single_request, requests, live_patterns>>

NextCalls ==
    \/ CallInferHttpMethod
    \/ CallDetectVoiceGender
    \/ CallTaskToFunctionParams

SpecCalls == InitCalls /\ [][NextCalls]_vars

(* ============================== properties ============================ *)

NoDuplicates(seq) == \A i, j \in 1..Len(seq) : seq[i] = seq[j] => i = j

\* The brief has been returned by the analysis stage.
Analyzed == pc \in {"analyzed", "agent_created", "functions_created", "merged", "done"}

\* _build_flow has returned.
FlowBuilt == pc \in {"agent_created", "functions_created", "merged", "done"}

Flow == agent_config_raw.conversation_flow

\* Target ids of the transitions of every node whose id is in ids.
Successors(nodes, ids) ==
    UNION { { nodes[i].transitions[t].target_node_id : t \in 1..Len(nodes[i].transitions) } :
              i \in { n \in 1..Len(nodes) : nodes[n].node_id \in ids } }

RECURSIVE ReachableFrom(_, _)
\* Node ids reachable from the ids in seen by following transitions.
ReachableFrom(nodes, seen) ==
    LET step == seen \cup Successors(nodes, seen)
    IN IF step = seen THEN seen ELSE ReachableFrom(nodes, step)

NodeIds(nodes) == { nodes[i].node_id : i \in 1..Len(nodes) }

NodesOfType(nodes, types) == { i \in 1..Len(nodes) : nodes[i].type \in types }

\* C1: in every flow of the rule-based pipeline, every collect_info node and
\* every api_call node is reachable from entry_node_id by following
\* transitions.  (Stated as claimed; the code violates it.)
C1_TaskNodesReachable ==
    FlowBuilt =>
        \A i \in NodesOfType(Flow.nodes, {"collect_info", "api_call"}) :
            Flow.nodes[i].node_id \in ReachableFrom(Flow.nodes, {Flow.entry_node_id})

\* C2: in every flow built from a rule-based brief, every node whose type is
\* not end has at least one transition after wiring, also when two tasks
\* collect the same slot.  (Stated as claimed; the code violates it.)
C2_NonEndNodesWired ==
    FlowBuilt =>
        \A i \in 1..Len(Flow.nodes) :
            Flow.nodes[i].type # "end" => Len(Flow.nodes[i].transitions) >= 1

\* C3: in every flow of the rule-based pipeline no two nodes have the same
\* node_id.  (Stated as claimed; the code violates it.)
C3_NodeIdsUnique ==
    FlowBuilt =>
        \A i, j \in 1..Len(Flow.nodes) :
            Flow.nodes[i].node_id = Flow.nodes[j].node_id => i = j

\* C4: in every flow produced by _build_flow, the target_node_id of every
\* transition is the node_id of some node of the same flow.
C4_TargetsExist ==
    FlowBuilt =>
        \A i \in 1..Len(Flow.nodes) :
            \A t \in 1..Len(Flow.nodes[i].transitions) :
                Flow.nodes[i].transitions[t].target_node_id \in NodeIds(Flow.nodes)

\* A flow whose failure node points at node_transfer and whose collect
\* nodes chain to one another has been built.
C4_Witness ==
    /\ FlowBuilt
    /\ \E i \in NodesOfType(Flow.nodes, {"response"}) :
          \E t \in 1..Len(Flow.nodes[i].transitions) :
              Flow.nodes[i].transitions[t].target_node_id = "node_transfer"
    /\ \E i \in NodesOfType(Flow.nodes, {"collect_info"}) :
          \E t \in 1..Len(Flow.nodes[i].transitions) :
              Flow.nodes[i].transitions[t].target_node_id # "node_confirm"

\* C5: every flow produced by _build_flow has exactly one node of type
\* greeting, at least one node of type end, and an entry_node_id that is
\* the node_id of a node of the flow: the greeting node, emitted first.
C5_GreetingEndEntry ==
    FlowBuilt =>
        /\ Cardinality(NodesOfType(Flow.nodes, {"greeting"})) = 1
        /\ NodesOfType(Flow.nodes, {"end"}) # {}
        /\ Flow.entry_node_id \in NodeIds(Flow.nodes)
        /\ Flow.nodes[1].type = "greeting"
        /\ Flow.nodes[1].node_id = Flow.entry_node_id

\* A flow with task nodes between the greeting and the end node was built.
C5_Witness ==
    /\ FlowBuilt
    /\ Len(Flow.nodes) > 5
    /\ Flow.nodes[Len(Flow.nodes)].type = "end"

\* C6: in every output of the rule-based pipeline every collect_info node
\* has a non-null collect_slot and every api_call node has a non-null
\* function_call naming a FunctionDefinition of the same output.
C6_SlotsAndFunctionsResolve ==
    pc = "done" =>
        LET nodes == agent_config.conversation_flow.nodes
            catalogue == { agent_config.functions[k].name : k \in 1..Len(agent_config.functions) }
        IN /\ \A i \in NodesOfType(nodes, {"collect_info"}) : nodes[i].collect_slot # None
           /\ \A i \in NodesOfType(nodes, {"api_call"}) :
                 /\ nodes[i].function_call # None
                 /\ nodes[i].function_call \in catalogue

\* An output with two api_call nodes and two functions, and a collect node.
C6_Witness ==
    /\ pc = "done"
    /\ Cardinality(NodesOfType(agent_config.conversation_flow.nodes, {"api_call"})) >= 2
    /\ Len(agent_config.functions) >= 2
    /\ NodesOfType(agent_config.conversation_flow.nodes, {"collect_info"}) # {}

\* The lower-cased prompt, as every detector sees it.
PromptLower == Lower(user_prompt)

\* Some keyword of a task-table entry other than greet occurs in the text.
TaskKeywordMatched ==
    \E k \in 1..Len(task_patterns) :
        task_patterns[k].key # "greet" /\ AnyIn(task_patterns[k].keywords, PromptLower)

TaskNames == { analysis.tasks[i].task_name : i \in 1..Len(analysis.tasks) }

\* Task i is the one the merge policy calls primary: the first task with
\* requires_api, else the first task not named Greeting.
IsPrimaryTask(i) ==
    IF \E j \in 1..Len(analysis.tasks) : analysis.tasks[j].requires_api
    THEN /\ analysis.tasks[i].requires_api
         /\ \A j \in 1..(i - 1) : ~analysis.tasks[j].requires_api
    ELSE /\ analysis.tasks[i].task_name # "Greeting"
         /\ \A j \in 1..(i - 1) : analysis.tasks[j].task_name = "Greeting"

\* C7 as claimed: for an input that mentions email and phone number (both
\* slots are extracted) and for which only the greeting task is detected (no
\* other task-table entry matches), the brief contains a synthesized task
\* Collect Customer Information with data_to_collect [email, phone_number]
\* and requires_api true.
C7_Original ==
    (/\ Analyzed
     /\ {"email", "phone_number"} \subseteq Range(analysis.user_requested_slots)
     /\ ~TaskKeywordMatched)
    => \E i \in 1..Len(analysis.tasks) :
          /\ analysis.tasks[i].task_name = "Collect Customer Information"
          /\ analysis.tasks[i].data_to_collect = <<"email", "phone_number">>
          /\ analysis.tasks[i].requires_api

\* C7 amended: for an input that mentions email and phone number the brief
\* never contains a synthesized Collect Customer Information task.  When the
\* text contains "email" and "phone number" the tasks Collect Email and
\* Collect Phone Number are detected; when only the greeting task is
\* detected the domain's default tasks are added.  Either way email and
\* phone_number end up in the data_to_collect of the primary task (the first
\* task with requires_api, else the first task not named Greeting).
C7_NoSynthesizedTask ==
    (/\ Analyzed
     /\ {"email", "phone_number"} \subseteq Range(analysis.user_requested_slots))
    => /\ "Collect Customer Information" \notin TaskNames
       /\ (Contains("email", PromptLower) /\ Contains("phone number", PromptLower))
             => {"Collect Email", "Collect Phone Number"} \subseteq TaskNames
       /\ ~TaskKeywordMatched
             => /\ Len(analysis.tasks) = 1 + Len(_domain_default_tasks(analysis.domain))
                /\ \A k \in 1..Len(_domain_default_tasks(analysis.domain)) :
                      analysis.tasks[1 + k].task_name =
                          _domain_default_tasks(analysis.domain)[k].task_name
       /\ \E i \in 1..Len(analysis.tasks) :
             /\ IsPrimaryTask(i)
             /\ {"email", "phone_number"} \subseteq Range(analysis.tasks[i].data_to_collect)

\* Email and phone number were extracted while only the greeting matched.
C7_Witness ==
    /\ Analyzed
    /\ analysis.user_requested_slots = <<"email", "phone_number">>
    /\ ~TaskKeywordMatched

\* No keyword of any domain occurs in the text.
NoDomainKeyword ==
    \A d \in 1..Len(domain_keywords) : ~AnyIn(domain_keywords[d].keywords, PromptLower)

\* The five consequences the no-domain scenario names.
GeneralInquiryOutcome ==
    /\ "General Inquiry" \in TaskNames
    /\ \A i \in 1..Len(analysis.tasks) : ~analysis.tasks[i].requires_api
    /\ agent_config.functions = <<>>
    /\ NodesOfType(agent_config.conversation_flow.nodes, {"api_call", "decision"}) = {}

\* C8 as claimed: every input without a domain keyword yields domain
\* general_support, the default task General Inquiry, no task with
\* requires_api, an empty function catalogue and a flow without api_call
\* and decision nodes.
C8_Original ==
    (pc = "done" /\ NoDomainKeyword)
    => (analysis.domain = "general_support" /\ GeneralInquiryOutcome)

\* C8 amended: every input without a domain keyword yields domain
\* general_support; when in addition no task-table keyword other than
\* greeting's occurs in it, it yields the default task General Inquiry, no
\* task with requires_api, an empty function catalogue and a flow without
\* api_call and decision nodes.
C8_NoDomainNoTask ==
    (pc = "done" /\ NoDomainKeyword)
    => /\ analysis.domain = "general_support"
       /\ ~TaskKeywordMatched => GeneralInquiryOutcome

\* A finished run on a text with neither domain nor task keyword, with slots.
C8_Witness ==
    /\ pc = "done"
    /\ NoDomainKeyword
    /\ ~TaskKeywordMatched
    /\ analysis.user_requested_slots # <<>>

\* C9: the example prompt yields domain healthcare, the extracted slots
\* [customer_name, preferred_date], a task Appointment Booking collecting
\* [customer_name, preferred_date, preferred_time], exactly one function
\* definition named get_appointment_slots, whose method is GET, the nodes
\* node_greet, node_collect_customer_name, node_collect_preferred_date and
\* node_api_appointment_booking, and a transition node_confirm -> node_end.
C9_ExampleScenario ==
    (pc = "done" /\ user_prompt = ExamplePrompt)
    => LET fns == agent_config.functions
           nodes == agent_config.conversation_flow.nodes
           named == { k \in 1..Len(fns) : fns[k].name = "get_appointment_slots" }
       IN /\ analysis.domain = "healthcare"
          /\ analysis.user_requested_slots = <<"customer_name", "preferred_date">>
          /\ \E i \in 1..Len(analysis.tasks) :
                /\ analysis.tasks[i].task_name = "Appointment Booking"
                /\ analysis.tasks[i].data_to_collect =
                      <<"customer_name", "preferred_date", "preferred_time">>
          /\ Cardinality(named) = 1
          /\ \A k \in named : fns[k].api_endpoint.method = "GET"
          /\ { "node_greet", "node_collect_customer_name", "node_collect_preferred_date",
               "node_api_appointment_booking" } \subseteq NodeIds(nodes)
          /\ \E i \in 1..Len(nodes) :
                /\ nodes[i].node_id = "node_confirm"
                /\ \E t \in 1..Len(nodes[i].transitions) :
                      nodes[i].transitions[t].target_node_id = "node_end"

\* The pipeline has finished on the example prompt.
C9_Witness ==
    /\ pc = "done"
    /\ user_prompt = ExamplePrompt
    /\ Len(agent_config.functions) > 0

\* C10: the list returned by _extract_user_slots holds each canonical slot
\* name at most once, and holds a name exactly when some keyword of that
\* slot's list is a substring of the lower-cased text.
C10_SlotsExactlyMatched ==
    Analyzed =>
        /\ NoDuplicates(analysis.user_requested_slots)
        /\ Range(analysis.user_requested_slots) \subseteq
              { slot_keywords[s].slot : s \in 1..Len(slot_keywords) }
        /\ \A text \in { PromptLower } :
              \A s \in 1..Len(slot_keywords) :
                 (slot_keywords[s].slot \in Range(analysis.user_requested_slots))
                 <=> (\E k \in 1..Len(slot_keywords[s].keywords) :
                         Contains(slot_keywords[s].keywords[k], text))

\* Slots were found through a keyword that is not the first of its list,
\* and another slot of the table was not found.
C10_Witness ==
    /\ Analyzed
    /\ "issue_description" \in Range(analysis.user_requested_slots)
    /\ "email" \in Range(analysis.user_requested_slots)
    /\ "customer_name" \notin Range(analysis.user_requested_slots)

(* ------------------------------- C11 ---------------------------------- *)

\* The task list _detect_tasks returned, before the slots were merged in.
IsPrimaryDetected(p) ==
    IF \E i \in 1..Len(detected_tasks) : detected_tasks[i].requires_api
    THEN /\ detected_tasks[p].requires_api
         /\ \A j \in 1..(p - 1) : ~detected_tasks[j].requires_api
    ELSE /\ detected_tasks[p].task_name # "Greeting"
         /\ \A j \in 1..(p - 1) : detected_tasks[j].task_name = "Greeting"

\* The extracted slots the task's list did not hold yet, in extraction order.
NewSlotsFor(task) ==
    SelectSeq(analysis.user_requested_slots,
              LAMBDA s : s \notin Range(task.data_to_collect))

\* C11: when at least one slot was extracted, the merge changes exactly one
\* task, the primary one (first task requiring an API, else first task not
\* named Greeting): its slot list becomes the previous list followed by the
\* extracted slots it did not hold, in extraction order and without
\* duplicates; every other task keeps its slot list.
C11_MergeFrame ==
    (Analyzed /\ analysis.user_requested_slots # <<>>) =>
        /\ Len(analysis.tasks) = Len(detected_tasks)
        /\ \E p \in 1..Len(detected_tasks) :
              /\ IsPrimaryDetected(p)
              /\ analysis.tasks[p].data_to_collect =
                    detected_tasks[p].data_to_collect \o NewSlotsFor(detected_tasks[p])
              /\ NoDuplicates(analysis.tasks[p].data_to_collect)
              /\ \A i \in 1..Len(detected_tasks) :
                    i # p => analysis.tasks[i] = detected_tasks[i]

\* A merge where the primary task comes after two tasks that need no API,
\* already holds one extracted slot and receives another.
C11_Witness ==
    /\ Analyzed
    /\ \E p \in 4..Len(detected_tasks) :
          /\ IsPrimaryDetected(p)
          /\ NewSlotsFor(detected_tasks[p]) # <<>>
          /\ \E s \in Range(analysis.user_requested_slots) :
                s \in Range(detected_tasks[p].data_to_collect)
          /\ Len(analysis.tasks[p].data_to_collect) > Len(detected_tasks[p].data_to_collect)

(* ------------------------------- C17 ---------------------------------- *)

\* The tasks of the brief that require an API, in task order.
ApiTasks == SelectSeq(analysis.tasks, LAMBDA t : t.requires_api)

\* C17: functions_needed holds exactly one entry per task that requires an
\* API, in task order (the k-th entry is made from the k-th such task: its
\* purpose is the task's api_description and its parameters are the task's
\* slots), and no two entries have the same name.
C17_OneFunctionPerApiTask ==
    Analyzed =>
        /\ Len(analysis.functions_needed) = Len(ApiTasks)
        /\ \A k \in 1..Len(ApiTasks) :
              LET fn == analysis.functions_needed[k]
              IN /\ fn.purpose = ApiTasks[k].api_description
                 /\ Len(fn.input_params) = Len(ApiTasks[k].data_to_collect)
                 /\ \A j \in 1..Len(fn.input_params) :
                       fn.input_params[j].name = ApiTasks[k].data_to_collect[j]
        /\ NoDuplicates([k \in 1..Len(analysis.functions_needed) |->
                            analysis.functions_needed[k].name])

\* Two API tasks after a task that needs no API: two function requirements.
C17_Witness ==
    /\ Analyzed
    /\ Len(ApiTasks) >= 2
    /\ Len(analysis.functions_needed) = Len(ApiTasks)
    /\ \E i \in 2..Len(analysis.tasks) :
          /\ ~analysis.tasks[i].requires_api
          /\ \E j \in (i + 1)..Len(analysis.tasks) : analysis.tasks[j].requires_api

(* ------------------------------- C18 ---------------------------------- *)

\* The task-table entries other than greet with a keyword in the text,
\* in table order.
MatchedEntries ==
    SelectSeq(task_patterns,
              LAMBDA e : e.key # "greet" /\ AnyIn(e.keywords, PromptLower))

DefaultTasksAdded ==
    /\ Analyzed
    /\ MatchedEntries = <<>>
    /\ analysis.domain = "healthcare"
    /\ Len(detected_tasks) = 2
    /\ detected_tasks[2].task_name = "Appointment Booking"

(* ------------------------------- C19 ---------------------------------- *)

\* The entries of the domain table with a keyword in the text.
MatchingDomains ==
    { d \in 1..Len(domain_keywords) : AnyIn(domain_keywords[d].keywords, PromptLower) }

\* C19: _detect_domain returns the first domain of the table with a keyword
\* in the text, whatever later domains match too, and general_support
\* exactly when no domain matches.
C19_FirstMatchingDomain ==
    Analyzed =>
      \A matching \in { MatchingDomains } :
        /\ matching # {} =>
              \E d \in matching :
                 /\ \A e \in matching : d <= e
                 /\ analysis.domain = domain_keywords[d].domain
        /\ (analysis.domain = "general_support") <=> (matching = {})

\* Two domains match and the keyword of the later one comes first in the
\* text.
C19_Witness ==
    /\ Analyzed
    /\ Cardinality(MatchingDomains) >= 2
    /\ SubSeq(PromptLower, 1, 5) = "order"
    /\ analysis.domain = "healthcare"

(* ------------------------------- C12 ---------------------------------- *)

\* The parameter list of the k-th function definition.
ParametersOf(k) == Get(functions_raw[k], "parameters", <<>>)

\* The positions of the parameters that count as required: the flag is
\* true, or absent.
RequiredPositions(params) ==
    { j \in 1..Len(params) : "required" \notin DOMAIN params[j] \/ params[j].required }

\* C12: to_openai_tools returns one schema per function definition, in the
\* same order; the required array of a schema holds the names of the
\* parameters whose required flag is true or absent, in parameter order; a
\* parameter whose flag is false is among the properties and not in
\* required.
C12_ToolSchemas ==
    pc = "done" =>
        /\ Len(openai_tools) = Len(functions_raw)
        /\ \A k \in 1..Len(functions_raw) :
              LET params == ParametersOf(k)
                  schema == openai_tools[k].function
                  required == schema.parameters.required
                  pos == RequiredPositions(params)
              IN /\ schema.name = functions_raw[k].name
                 /\ Len(required) = Cardinality(pos)
                 /\ \A j \in pos :
                       required[Cardinality({ l \in pos : l <= j })] = params[j].name
                 /\ \A j \in 1..Len(params) :
                       /\ params[j].name \in DOMAIN schema.parameters.properties
                       /\ j \notin pos => params[j].name \notin Range(required)

\* A catalogue of two functions, one with a required, an optional and an
\* unflagged parameter.
C12_Witness ==
    /\ pc = "done"
    /\ Len(openai_tools) = 2
    /\ \E k \in 1..Len(functions_raw) :
          /\ \E j \in 1..Len(ParametersOf(k)) :
                "required" \in DOMAIN ParametersOf(k)[j] /\ ~ParametersOf(k)[j].required
          /\ \E j \in 1..Len(ParametersOf(k)) :
                "required" \in DOMAIN ParametersOf(k)[j] /\ ParametersOf(k)[j].required
          /\ \E j \in 1..Len(ParametersOf(k)) : "required" \notin DOMAIN ParametersOf(k)[j]
          /\ Len(openai_tools[k].function.parameters.required) = 2

(* ------------------------------- C14 ---------------------------------- *)

Stages == {"analysis", "agent", "functions"}

\* C14: with an LLM client each stage calls the LLM at most once per
\* request; a stage whose call failed (or returned unparsable JSON) holds
\* the result of the rule-based generator on the same input; and the
\* failure alone does not fail the request: a failed request has a missing
\* name in the brief, the draft or the catalogue, and a request in which
\* every stage that called the LLM fell back does not fail.
C14_OneCallThenRules ==
    /\ \A stage \in Stages : llm_calls[stage] <= 1
    /\ \A stage \in fell_back : llm_calls[stage] = 1
    /\ "analysis" \in fell_back => analysis = _analyze_with_rules(user_prompt)
    /\ ("agent" \in fell_back /\ FlowBuilt) =>
          agent_config_raw = AgentCreator_create_with_rules(analysis).result
    /\ ("functions" \in fell_back) =>
          functions_raw =
             FunctionCreator_create_with_rules(Get(analysis, "functions_needed", <<>>))
    /\ pc = "failed" =>
          \/ BuildFlowKeyError(analysis) # ""
          \/ MergeKeyError(agent_config_raw, functions_raw) # ""
    /\ ( /\ {"analysis", "agent"} \subseteq fell_back
         /\ \/ "functions" \in fell_back
            \/ Get(analysis, "functions_needed", <<>>) = <<>> ) => pc # "failed"

\* The three LLM calls of one request all failed and the request succeeded.
C14_Witness ==
    /\ llm_client
    /\ fell_back = Stages
    /\ llm_calls = [analysis |-> 1, agent |-> 1, functions |-> 1]
    /\ pc = "done"
    /\ response.success
    /\ Len(functions_raw) >= 2

(* ------------------------------- C15 ---------------------------------- *)

\* A stage raised: the flow builder or the merge met a missing name.
StageRaised ==
    \/ /\ pc \notin {"start", "analyzed"}
       /\ "agent" \in fell_back
       /\ BuildFlowKeyError(analysis) # ""
    \/ /\ pc \notin {"start", "analyzed", "agent_created", "functions_created"}
       /\ MergeKeyError(agent_config_raw, functions_raw) # ""

\* C15: when an exception escapes a stage, process_request returns a
\* response with success false, a message, no agent_config and no tool
\* schemas; a response that reports success comes from a request in which no
\* stage raised.
C15_FailureResponse ==
    /\ StageRaised =>
          /\ pc = "failed"
          /\ ~response.success
          /\ Len(response.message) > Len("Failed to create agent: ")
          /\ response.agent_config = Nothing
          /\ response.openai_tools_schema = Nothing
    /\ (response # Nothing /\ response.success) => (pc = "done" /\ ~StageRaised)

\* The merge raised after two stages had produced their results.
C15_Witness ==
    /\ pc = "failed"
    /\ StageRaised
    /\ agent_config_raw # Nothing
    /\ functions_raw # <<>>
    /\ ~response.success

(* ------------------------------- C16 ---------------------------------- *)

\* C16: the rule-based generators and _merge_config never raise on a brief,
\* a draft or a function list in which a field is missing: no request ends
\* in the except branch.
C16_NeverRaises == pc # "failed"

\* The requests that have returned.
Returned == { r \in DOMAIN requests : requests[r].pc = "done" }

\* A configuration without the values of its default factories: the uuid4
\* identifiers and created_at.
Unstamped(config) ==
    [config EXCEPT
        !.agent_id = None,
        !.created_at = None,
        !.functions = [ k \in 1..Len(@) |-> [@[k] EXCEPT !.function_id = None] ],
        !.conversation_flow = IF @ = Nothing THEN Nothing ELSE [@ EXCEPT !.flow_id = None]]

AloneSteps(brief) ==
    [analysis |-> brief,
     agent_config_raw |-> create_agent_config(FALSE, brief, LLMFailure).result,
     functions_raw |-> create_functions(FALSE, brief.functions_needed, LLMFailure).result]

Alone == [ p \in RequestPrompts |-> AloneSteps(_analyze_request(FALSE, p, LLMFailure).result) ]

\* C20: whatever the interleaving of the invocations on one orchestrator,
\* the brief, the flow and the function catalogue of each equal what its
\* prompt yields alone on a fresh orchestrator.
C20_RequestsIndependent ==
    \A r \in DOMAIN requests :
        \A alone \in { Alone[requests[r].user_prompt] } :
            /\ requests[r].pc # "start" => requests[r].analysis = alone.analysis
            /\ requests[r].pc \notin {"start", "analyzed"} =>
                  requests[r].agent_config_raw = alone.agent_config_raw
            /\ requests[r].pc \in {"functions_created", "done"} =>
                  requests[r].functions_raw = alone.functions_raw

\* A request whose user slot was merged into the appointment task and a
\* request matching the same table entry have both returned; the table
\* object left behind is that of the second, which ran its analysis last
\* and appended nothing.
C20_Witness ==
    /\ {1, 2} \subseteq Returned
    /\ requests[1].user_prompt = "appointment Email"
    /\ requests[2].user_prompt = "appointment hello"
    /\ live_patterns = task_patterns
    /\ call = Nothing
    /\ \E i \in 1..Len(requests[1].analysis.tasks) :
          /\ requests[1].analysis.tasks[i].task_name = "Appointment Booking"
          /\ "email" \in Range(requests[1].analysis.tasks[i].data_to_collect)
    /\ \E i \in 1..Len(requests[2].analysis.tasks) :
          /\ requests[2].analysis.tasks[i].task_name = "Appointment Booking"
          /\ "email" \notin Range(requests[2].analysis.tasks[i].data_to_collect)

\* A call has left behind a table object it appended to.
TableMutated == live_patterns # task_patterns

\* C21: once the analysis stage has returned the brief, no later stage
\* changes it (tasks, slot lists and function requirements included), and
\* the raw_analysis of the response is that brief.
C21_BriefUnchanged ==
    /\ [][pc # "start" => analysis' = analysis]_vars
    /\ [](pc = "done" => response.raw_analysis = analysis)

\* A request whose brief holds merged user slots and function requirements
\* has gone through every later stage.
C21_Witness ==
    /\ pc = "done"
    /\ analysis.user_requested_slots # <<>>
    /\ analysis.functions_needed # <<>>
    /\ \E i \in 1..Len(analysis.tasks) :
          Range(analysis.user_requested_slots) \subseteq Range(analysis.tasks[i].data_to_collect)
    /\ response.raw_analysis = analysis

\* The nodes _build_flow emitted for the tasks of the brief: those between
\* the greeting node and the four closing nodes.
EmittedTaskNodes(nodes) == SubSeq(nodes, 2, Len(nodes) - 4)

\* C22: in every flow of the rule-based pipeline node_greet has exactly one
\* transition, on user_responds; it targets the first task node emitted after
\* the greeting when some task produced a node, and node_confirm only when no
\* task produced a node.  (Stated as claimed; the code violates it.)
C22_GreetToFirstTaskNode ==
    FlowBuilt =>
        \A nodes \in { Flow.nodes } :
            /\ nodes[1].node_id = "node_greet"
            /\ Len(nodes[1].transitions) = 1
            /\ nodes[1].transitions[1].condition = "user_responds"
            /\ nodes[1].transitions[1].target_node_id =
                  IF EmittedTaskNodes(nodes) # <<>>
                  THEN EmittedTaskNodes(nodes)[1].node_id ELSE "node_confirm"

\* The number of nodes of a flow that precede the nodes of task i: the
\* greeting and the nodes of the earlier tasks (slots, and four more for an
\* API task).
RECURSIVE EmittedBefore(_, _)
EmittedBefore(tasks, i) ==
    IF i = 1 THEN 1
    ELSE EmittedBefore(tasks, i - 1) + Len(tasks[i - 1].data_to_collect)
           + (IF tasks[i - 1].requires_api THEN 4 ELSE 0)

\* The length of a task's node group: collect nodes, api_call, decision.
GroupLen(task) == Len(task.data_to_collect) + (IF task.requires_api THEN 2 ELSE 0)

\* C23: within each task's node group every collect_info node has exactly one
\* transition, on slot_filled, and every api_call node exactly one, on
\* api_response_received; its target is the next node of the group, or
\* node_confirm for the last node of the group.  (Stated as claimed; the code
\* violates it.)
C23_GroupChained ==
    FlowBuilt =>
        \A nodes \in { Flow.nodes } : \A i \in 1..Len(analysis.tasks) :
            \A base \in { EmittedBefore(analysis.tasks, i) } :
                \A k \in 1..GroupLen(analysis.tasks[i]) :
                    nodes[base + k].type \in {"collect_info", "api_call"} =>
                        nodes[base + k].transitions =
                            << [condition |->
                                  IF nodes[base + k].type = "collect_info"
                                  THEN "slot_filled" ELSE "api_response_received",
                                target_node_id |->
                                  IF k < GroupLen(analysis.tasks[i])
                                  THEN nodes[base + k + 1].node_id ELSE "node_confirm"] >>

\* One transition.
Transition(condition, target) == [condition |-> condition, target_node_id |-> target]

C29_ConditionsDistinct ==
    FlowBuilt =>
        \A nodes \in { Flow.nodes } : \A i \in 1..Len(nodes) :
            \A out \in { nodes[i].transitions } : \A a, b \in 1..Len(out) :
                out[a].condition = out[b].condition => a = b

\* The flow of the draft was built by _build_flow from the brief.
RuleBuiltFlow == FlowBuilt /\ (llm_client => "agent" \in fell_back)

\* The first element of names satisfying hit, else the first element, else
\* None.
FirstOrFallback(names, hit(_)) ==
    IF \E k \in 1..Len(names) : hit(names[k])
    THEN names[CHOOSE k \in 1..Len(names) :
                  hit(names[k]) /\ \A j \in 1..(k - 1) : ~hit(names[j])]
    ELSE IF names # <<>> THEN names[1] ELSE None

\* The api_call node of every API-requiring task of the brief refers to
\* FirstOrFallback of the function names under the given matching rule.
ApiNodesCall(matches(_, _)) ==
    \A nodes \in { Flow.nodes } : \A tasks \in { Get(analysis, "tasks", <<>>) } :
        \A t \in 1..Len(tasks) : Get(tasks[t], "requires_api", FALSE) =>
            \A needed \in { Get(analysis, "functions_needed", <<>>) } :
                \A names \in { [ k \in 1..Len(needed) |-> needed[k].name ] } :
                    \A n \in 1..Len(nodes) :
                        nodes[n].node_id = "node_api_" \o FlowTaskKey(tasks[t]) =>
                            nodes[n].function_call =
                                FirstOrFallback(names, LAMBDA name : matches(tasks[t], name))

\* C25 as claimed: the function_call of a task's api_call node is the first
\* function name, in catalogue order, that contains the task's lower-cased,
\* underscore-joined name, and the first function of the catalogue when none
\* does.
C25_Original ==
    RuleBuiltFlow =>
        ApiNodesCall(LAMBDA task, name : Contains(FlowTaskKey(task), name))

\* C25, amended: the function_call is the first function name, in catalogue
\* order, that contains the task's lower-cased, underscore-joined name or
\* occurs in the task's api_description, and the first function of the
\* catalogue when there is none.
C25_NameOrDescription ==
    RuleBuiltFlow =>
        ApiNodesCall(LAMBDA task, name :
                        \/ Contains(FlowTaskKey(task), name)
                        \/ Contains(name, Get(task, "api_description", "")))

\* A rule-built flow whose api_call node refers to the second function
\* because the task's api_description names it.
C25_Witness ==
    /\ RuleBuiltFlow
    /\ Len(Get(analysis, "functions_needed", <<>>)) >= 2
    /\ \E n \in 1..Len(Flow.nodes) :
          /\ Flow.nodes[n].type = "api_call"
          /\ Flow.nodes[n].function_call = analysis.functions_needed[2].name
          /\ Contains(Flow.nodes[n].function_call, analysis.tasks[1].api_description)

\* The function catalogue of a returned request came from
\* FunctionCreator._create_with_rules.
RuleBuiltFunctions == pc = "done" /\ (llm_client => "functions" \in fell_back)

\* C30: for every rule-built function, the tool schema to_openai_tools makes
\* from the raw dict equals the schema to_openai_tool_schema makes from the
\* FunctionDefinition _merge_config built of it: name, description,
\* properties with the same enum and default keys, and required list.
C30_SchemasAgree ==
    RuleBuiltFunctions =>
        /\ Len(openai_tools) = Len(agent_config.functions)
        /\ \A k \in 1..Len(openai_tools) :
              openai_tools[k] = to_openai_tool_schema(agent_config.functions[k])

\* A returned request with two rule-built functions, one with several
\* parameters.
C30_Witness ==
    /\ RuleBuiltFunctions
    /\ Len(agent_config.functions) >= 2
    /\ \E k \in 1..Len(openai_tools) :
          /\ Len(agent_config.functions[k].parameters) >= 3
          /\ Len(openai_tools[k].function.parameters.required) >= 3
          /\ openai_tools[k] = to_openai_tool_schema(agent_config.functions[k])

\* The call of the helper fn has returned.
Returned_(fn) == call.fn = fn /\ call.returned

GetVerbs == <<"get", "fetch", "list", "check", "search", "find", "lookup">>
PostVerbs == <<"create", "book", "schedule", "submit", "register">>
PutVerbs == <<"update", "modify", "change">>
DeleteVerbs == <<"delete", "cancel", "remove">>

\* C26: _infer_http_method gives GET when the name holds a GET keyword; else
\* POST when it holds a POST keyword; else PUT for a PUT keyword; else DELETE
\* for a DELETE keyword; only when the name holds none of them does the
\* purpose decide: GET for retrieve, query or look up, POST otherwise.
C26_MethodPrecedence ==
    Returned_("_infer_http_method") =>
        \A name \in { Lower(call.args.name) } : \A purpose \in { Lower(call.args.purpose) } :
            \A get \in { AnyIn(GetVerbs, name) }, post \in { AnyIn(PostVerbs, name) },
               put \in { AnyIn(PutVerbs, name) }, delete \in { AnyIn(DeleteVerbs, name) } :
                /\ get => call.result = "GET"
                /\ ~get /\ post => call.result = "POST"
                /\ ~get /\ ~post /\ put => call.result = "PUT"
                /\ ~get /\ ~post /\ ~put /\ delete => call.result = "DELETE"
                /\ ~get /\ ~post /\ ~put /\ ~delete =>
                      call.result = IF AnyIn(<<"retrieve", "query", "look up">>, purpose)
                                    THEN "GET" ELSE "POST"

\* A name with a PUT and a DELETE keyword and a purpose with a GET keyword
\* was given PUT.
C26_Witness ==
    /\ Returned_("_infer_http_method")
    /\ AnyIn(PutVerbs, call.args.name) /\ AnyIn(DeleteVerbs, call.args.name)
    /\ AnyIn(<<"retrieve", "query", "look up">>, Lower(call.args.purpose))
    /\ call.result = "PUT"

\* A male phrase occurs in the text outside the female phrases.
ExplicitMalePhrase(text) ==
    \A rest \in { Replace(Replace(text, "female voice", "#"), "female agent", "#") } :
        Contains("male voice", rest) \/ Contains("male agent", rest)

FemalePhrase(text) == Contains("female voice", text) \/ Contains("female agent", text)

\* C27: _detect_voice_gender returns male for a text with an explicit male
\* phrase (male voice, male agent) and no female phrase, female for a text
\* whose only gender phrases are female voice or female agent, and female
\* when none of the four phrases occurs.  (Stated as claimed; the code
\* violates it.)
C27_VoiceGender ==
    Returned_("_detect_voice_gender") =>
        \A male \in { ExplicitMalePhrase(call.args.text) },
           female \in { FemalePhrase(call.args.text) } :
            /\ male /\ ~female => call.result = "male"
            /\ female /\ ~male => call.result = "female"
            /\ ~male /\ ~female => call.result = "female"

\* The type the claimed rule gives a slot name.
ClaimedParamType(slot) ==
    LET s == Lower(slot)
    IN IF Contains("date", s) \/ Contains("number", s) \/ Contains("amount", s)
       THEN "string"
       ELSE IF Contains("count", s) \/ Contains("quantity", s) THEN "integer"
       ELSE "string"

\* The slot names the rule tables can place in a task: those of the task
\* templates, of the domain defaults and of the extractable slots.
TableSlotNames ==
    UNION { Range(task_patterns[k].task.data_to_collect) : k \in 1..Len(task_patterns) }
    \cup UNION { Range(_domain_default_tasks(d)[k].data_to_collect) :
                   d \in {"healthcare", "e-commerce", "finance", "general_support"},
                   k \in {1} }
    \cup { slot_keywords[k].slot : k \in 1..Len(slot_keywords) }

\* C28: _task_to_function_params returns one parameter per slot of the task,
\* in slot order and named after the slot, of type string when the name holds
\* date, number or amount, integer when it holds count or quantity and none
\* of those, string otherwise; every slot name of the rule tables gets string.
C28_ParamsPerSlot ==
    /\ Returned_("_task_to_function_params") =>
          \A slots \in { call.args.task.data_to_collect } : \A params \in { call.result } :
              /\ Len(params) = Len(slots)
              /\ \A k \in 1..Len(slots) :
                    /\ params[k].name = slots[k]
                    /\ params[k].type = ClaimedParamType(slots[k])
    /\ \A slot \in TableSlotNames : ParamType(slot) = "string"

\* A task with account_number (count and number) and item_count got a string
\* and an integer parameter.
C28_Witness ==
    /\ Returned_("_task_to_function_params")
    /\ call.args.task.data_to_collect = <<"account_number", "item_count">>
    /\ Len(call.result) = 2
    /\ call.result[1].type = "string" /\ call.result[2].type = "integer"
    /\ "account_number" \in TableSlotNames

====
